---------------------------- MODULE Spec2Model ----------------------------
(***************************************************************************)
(* KubeBao: a model of the KMS plugin server, the CSI provider (Mount and  *)
(* its read-through cache) and the two operator controllers (BaoPolicy,    *)
(* BaoSecret), translated from the Go sources.                             *)
(*                                                                         *)
(* Each component has its own specification (SpecKMS, SpecCSI, SpecPolicy, *)
(* SpecSecret); the variables of the other components stay at their        *)
(* initial values.  Go strings that the code only compares are TLA+        *)
(* strings; Go strings that the code concatenates or searches are          *)
(* sequences of pieces of text.                                            *)
(***************************************************************************)
EXTENDS Integers, Sequences, FiniteSets, TLC

VARIABLES
    \* ---- KMS plugin (kms.Server) and the transit key it observes
    keyID,        \* Server.keyID: "" or the formatted key id
    healthy,      \* Server.healthy
    kmsPhase,     \* "new" | "serving" | "failed": result of NewServer/initialize
    transitKey,   \* backend: [exists, latest] of the configured transit key
    hcPending,    \* performHealthCheck between GetKeyInfo and mu.Lock
    encPending,   \* Encrypt between transit.Encrypt and mu.RLock
    kmsResp,      \* the last RPC response the server produced
    lastHC,       \* the last completed health check (history)
    kmsFetched    \* LatestVersion values of the successful GetKeyInfo calls (history)

kmsVars == <<keyID, healthy, kmsPhase, transitKey, hcPending, encPending,
             kmsResp, lastHC, kmsFetched>>

\* The CSI provider: the fetcher's cache, the clock, the last Mount call,
\* per (path, field-key, object-name) the entry its latest storing fetch
\* stored, whether the provider process runs, Config.DefaultRole.
VARIABLES cache, now, lastMount, csiStored, csiUp, DefaultRole

csiVars == <<cache, now, lastMount, csiStored, csiUp, DefaultRole>>

\* The BaoPolicy controller: the BaoPolicy resource as the API server holds
\* it, the backend's ACL policies by name, whether the reconciler has an
\* OpenBao client, the last reconcile (history), and the rule list of the
\* latest reconcile that wrote its document and persisted the version.
VARIABLES baoPolicy, polBackend, polClient, polLast, polSynced

polVars == <<baoPolicy, polBackend, polClient, polLast, polSynced>>

\* The BaoSecret controller: the resource, the backend content at its path,
\* the target Secret of each namespace, whether a backend client is
\* configured, what the latest reconcile did and the latest successful sync;
\* and, when a second BaoSecret names the same target, the one of the two
\* that the worker is not reconciling next.
VARIABLES baoSecret, secBackend, secTarget, secClient, secLast, secSynced,
          peerSecret

secVars == <<baoSecret, secBackend, secTarget, secClient, secLast, secSynced,
             peerSecret>>

\* A backend client (openbao.Client, csi.AuthenticatedClient): the expiry it
\* has recorded for its token, its clock, and its last call (history).
VARIABLES tokenExpiry, clientNow, lastCall

clientVars == <<tokenExpiry, clientNow, lastCall>>

\* Run of the two gRPC servers: whether the process context is cancelled,
\* per server the state of Run and of its grpc.Server, and the KMS
\* plugin's health-check loop.
VARIABLES ctxDone, grpcServer, hcLoop

runVars == <<ctxDone, grpcServer, hcLoop>>

\* The pure functions: the last application of one (function, input,
\* result).
VARIABLES lastApplied

libVars == <<lastApplied>>

\* The goroutines of one process and its read/write locks: which process
\* it is, whether its constructor has returned, what each goroutine runs
\* and how far it is, who holds each lock, and the last step (history).
VARIABLES process, constructed, goroutines, mu, lastStep

lockVars == <<process, constructed, goroutines, mu, lastStep>>

vars == <<kmsVars, csiVars, polVars, secVars, clientVars, runVars, libVars,
          lockVars>>

\* What a step of one component leaves alone.
notKMS == <<csiVars, polVars, secVars, clientVars,
    runVars, libVars, lockVars>>
notCSI == <<kmsVars, polVars, secVars, clientVars,
    runVars, libVars, lockVars>>
notPolicy == <<kmsVars, csiVars, secVars, clientVars,
    runVars, libVars, lockVars>>
notSecret == <<kmsVars, csiVars, polVars, clientVars,
    runVars, libVars, lockVars>>
notClient == <<kmsVars, csiVars, polVars, secVars, runVars, libVars, lockVars>>
notRun == <<kmsVars, csiVars, polVars, secVars, clientVars, libVars, lockVars>>
notLib == <<kmsVars, csiVars, polVars, secVars, clientVars, runVars, lockVars>>
notLock == <<kmsVars, csiVars, polVars, secVars, clientVars, runVars, libVars>>

None == "none"

(***************************************************************************)
(* KMS plugin                                                              *)
(***************************************************************************)

\* Config.KeyName (the model uses one configured key).
KeyName == "kubebao-kms"

\* The highest version the backend key is rotated to.
MaxKeyVersion == 3

\* Config.CreateKeyIfNotExists, chosen at construction.
CreateKeyIfNotExistsValues == {TRUE, FALSE}

\* The Go dynamic type a decoded JSON number of a response can have.
JSONNumberTypes == {"float64", "json.Number"}

\* fmt.Sprintf("%s:v%d", name, version)
FormatKeyID(name, version) == <<name, ":v", version>>

\* What Logical().Read of transit/keys/<name> can answer: a transport or
\* backend error, a nil secret (the key is absent), or the key's data with
\* latest_version decoded as one of the Go number types.
TransitKeyResponses ==
    {[err |-> TRUE, nil |-> FALSE, latest |-> [type |-> "float64", val |-> 0]]}
    \cup (IF transitKey.exists
          THEN {[err |-> FALSE, nil |-> FALSE,
                 latest |-> [type |-> t, val |-> transitKey.latest]]
                    : t \in JSONNumberTypes}
          ELSE {[err |-> FALSE, nil |-> TRUE,
                 latest |-> [type |-> "float64", val |-> 0]]})

\* Client.TransitGetKeyInfo / TransitClient.GetKeyInfo on a response:
\* LatestVersion is taken only when the value asserts to float64, and is
\* the int zero value otherwise.
TransitGetKeyInfo(resp) ==
    IF resp.err \/ resp.nil
    THEN [err |-> TRUE, LatestVersion |-> 0]
    ELSE [err |-> FALSE,
          LatestVersion |-> IF resp.latest.type = "float64"
                            THEN resp.latest.val ELSE 0]

\* The empty Go string, for strings modelled as sequences.
EmptyStr == <<>>

\* The latest call and what it returned: the handler (or initialize), the
\* error, the response fields, whether the request's payload was empty, the
\* backend calls the call issued and, for initialize, what the first fetch
\* answered, the create flag, the outcomes of create and re-fetch, and the
\* create-key calls issued.
NoResp ==
    [kind |-> None, err |-> FALSE, KeyId |-> EmptyStr, Healthz |-> "",
     usedVer |-> 0, empty |-> FALSE, calls |-> 0, fetch |-> None,
     create |-> FALSE, createOK |-> FALSE, refetchOK |-> FALSE, creates |-> 0]

\* History of health checks: the last completed one (done, ok, the version it
\* read, keyID before it) and the version read by the last successful one.
NoHC == [ok |-> FALSE, done |-> FALSE, version |-> 0, before |-> EmptyStr,
         seen |-> FALSE, observed |-> 0]

\* No GetKeyInfo result / no transit.Encrypt result is waiting for the lock.
NoKeyInfo == [pending |-> FALSE, err |-> FALSE, LatestVersion |-> 0]
NoEncrypt == [pending |-> FALSE, usedVer |-> 0]

KMSInit ==
    /\ keyID = EmptyStr
    /\ healthy = FALSE
    /\ kmsPhase = "new"
    /\ transitKey \in {[exists |-> FALSE, latest |-> 0], [exists |-> TRUE, latest |-> 1]}
    /\ hcPending = NoKeyInfo
    /\ encPending = NoEncrypt
    /\ kmsResp = NoResp
    /\ lastHC = NoHC
    /\ kmsFetched = {}

\* The branch initialize ends on, with create-if-missing as configured and
\* the key creation ignored when it fails.
initializePath_IgnoresCreateError(fetchErr, create, createOK, refetchOK) ==
    IF ~fetchErr THEN "fetched"
    ELSE IF ~create THEN "notCreated"
    ELSE IF ~refetchOK THEN "refetchFailed"
    ELSE "refetched"

\* The branch initialize ends on: the first GetKeyInfo succeeded; it failed
\* and the key is not to be created; CreateKey failed; the second
\* GetKeyInfo failed; the second GetKeyInfo succeeded.
initializePath(fetchErr, create, createOK, refetchOK) ==
    IF ~fetchErr THEN "fetched"
    ELSE IF ~create THEN "notCreated"
    ELSE IF ~createOK THEN "createFailed"
    ELSE IF ~refetchOK THEN "refetchFailed"
    ELSE "refetched"

\* NewServer -> Server.initialize: GetKeyInfo; on any error create the key
\* (when CreateKeyIfNotExists) and fetch again; then set keyID and healthy.
\* On an error NewServer returns no server.
initialize ==
    /\ kmsPhase = "new"
    /\ \E create \in CreateKeyIfNotExistsValues, createOK \in BOOLEAN,
          refetchOK \in BOOLEAN, t \in JSONNumberTypes,
          r1 \in TransitKeyResponses :
          LET i1 == TransitGetKeyInfo(r1)
              path == initializePath(i1.err, create, createOK, refetchOK)
              created == path \in {"refetchFailed", "refetched"}
              key == IF created /\ ~transitKey.exists
                     THEN [exists |-> TRUE, latest |-> 1] ELSE transitKey
              i2 == TransitGetKeyInfo(
                        [err |-> FALSE, nil |-> FALSE,
                         latest |-> [type |-> t, val |-> key.latest]])
              keyInfo == IF path = "fetched" THEN i1 ELSE i2
              ok == path \in {"fetched", "refetched"}
          IN /\ transitKey' = key
             /\ kmsPhase' = IF ok THEN "serving" ELSE "failed"
             /\ keyID' = IF ok THEN FormatKeyID(KeyName, keyInfo.LatestVersion)
                         ELSE keyID
             /\ healthy' = IF ok THEN TRUE ELSE healthy
             /\ kmsFetched' = IF ok THEN kmsFetched \cup {keyInfo.LatestVersion}
                              ELSE kmsFetched
             /\ kmsResp' = [NoResp EXCEPT
                    !.kind = "initialize", !.err = ~ok,
                    !.fetch = IF r1.err THEN "failed"
                              ELSE IF r1.nil THEN "absent" ELSE "found",
                    !.create = create, !.createOK = createOK,
                    !.refetchOK = refetchOK,
                    !.creates = IF path \in {"fetched", "notCreated"}
                                THEN 0 ELSE 1,
                    !.calls = IF path \in {"fetched", "notCreated"} THEN 1
                              ELSE IF path = "createFailed" THEN 2 ELSE 3]
    /\ UNCHANGED <<hcPending, encPending, lastHC>>
    /\ UNCHANGED notKMS

\* Server.Status: reads healthy and keyID under the read lock.
Status ==
    /\ kmsPhase = "serving"
    /\ kmsResp' = [NoResp EXCEPT !.kind = "Status", !.KeyId = keyID,
                      !.Healthz = IF healthy THEN "ok" ELSE "unhealthy"]
    /\ UNCHANGED <<keyID, healthy, kmsPhase, transitKey, hcPending, encPending,
                   lastHC, kmsFetched>>
    /\ UNCHANGED notKMS

\* Server.Encrypt up to the return of transit.Encrypt: an empty plaintext is
\* rejected before any backend call; a backend failure is returned as an
\* error; on success the backend has encrypted with its latest key version.
EncryptCall ==
    /\ kmsPhase = "serving"
    /\ ~encPending.pending
    /\ \E plaintextEmpty \in BOOLEAN, backendOK \in BOOLEAN :
         IF plaintextEmpty \/ ~backendOK \/ ~transitKey.exists
         THEN /\ kmsResp' = [NoResp EXCEPT !.kind = "Encrypt", !.err = TRUE,
                                 !.empty = plaintextEmpty,
                                 !.calls = IF plaintextEmpty THEN 0 ELSE 1]
              /\ UNCHANGED encPending
         ELSE /\ encPending' = [pending |-> TRUE, usedVer |-> transitKey.latest]
              /\ UNCHANGED kmsResp
    /\ UNCHANGED <<keyID, healthy, kmsPhase, transitKey, hcPending, lastHC, kmsFetched>>
    /\ UNCHANGED notKMS

\* Server.Encrypt from mu.RLock on: read keyID and build the response.
EncryptReturn ==
    /\ encPending.pending
    /\ kmsResp' = [NoResp EXCEPT !.kind = "Encrypt", !.KeyId = keyID,
                      !.usedVer = encPending.usedVer, !.calls = 1]
    /\ encPending' = NoEncrypt
    /\ UNCHANGED <<keyID, healthy, kmsPhase, transitKey, hcPending, lastHC, kmsFetched>>
    /\ UNCHANGED notKMS

\* The response of Decrypt when the backend is called before the
\* ciphertext is looked at.
DecryptResponse_CallsBackendFirst(ciphertextEmpty, backendOK) ==
    [NoResp EXCEPT !.kind = "Decrypt", !.empty = ciphertextEmpty,
        !.err = (ciphertextEmpty \/ ~backendOK \/ ~transitKey.exists),
        !.calls = 1]

\* The response of Decrypt: an empty ciphertext is rejected before any
\* backend call, else transit.Decrypt is called with the configured key.
DecryptResponse(ciphertextEmpty, backendOK) ==
    [NoResp EXCEPT !.kind = "Decrypt", !.empty = ciphertextEmpty,
        !.err = (ciphertextEmpty \/ ~backendOK \/ ~transitKey.exists),
        !.calls = IF ciphertextEmpty THEN 0 ELSE 1]

\* Server.Decrypt: never touches keyID or healthy.
Decrypt ==
    /\ kmsPhase = "serving"
    /\ \E ciphertextEmpty \in BOOLEAN, backendOK \in BOOLEAN :
         kmsResp' = DecryptResponse(ciphertextEmpty, backendOK)
    /\ UNCHANGED <<keyID, healthy, kmsPhase, transitKey, hcPending, encPending,
                   lastHC, kmsFetched>>
    /\ UNCHANGED notKMS

\* performHealthCheck, first statement: GetKeyInfo outside the lock.
HealthCheckFetch ==
    /\ kmsPhase = "serving"
    /\ ~hcPending.pending
    /\ \E r \in TransitKeyResponses :
         hcPending' = [pending |-> TRUE, err |-> TransitGetKeyInfo(r).err,
                       LatestVersion |-> TransitGetKeyInfo(r).LatestVersion]
    /\ UNCHANGED <<keyID, healthy, kmsPhase, transitKey, encPending, kmsResp,
                   lastHC, kmsFetched>>
    /\ UNCHANGED notKMS

\* performHealthCheck with the keyID update lost: a successful check only
\* sets healthy.
performHealthCheck_KeepsKeyID ==
    /\ hcPending.pending
    /\ healthy' = ~hcPending.err
    /\ kmsFetched' = IF hcPending.err THEN kmsFetched
                     ELSE kmsFetched \cup {hcPending.LatestVersion}
    /\ lastHC' = [ok |-> ~hcPending.err, done |-> TRUE,
                  version |-> hcPending.LatestVersion, before |-> keyID,
                  seen |-> (lastHC.seen \/ ~hcPending.err),
                  observed |-> IF hcPending.err THEN lastHC.observed
                               ELSE hcPending.LatestVersion]
    /\ hcPending' = NoKeyInfo
    /\ kmsResp' = NoResp
    /\ UNCHANGED <<keyID, kmsPhase, transitKey, encPending>>
    /\ UNCHANGED notKMS

\* performHealthCheck that formats keyID before looking at the error: a
\* failed check stores the id of the zero-valued key info.
performHealthCheck_OverwritesOnError ==
    /\ hcPending.pending
    /\ keyID' = FormatKeyID(KeyName, hcPending.LatestVersion)
    /\ healthy' = ~hcPending.err
    /\ kmsFetched' = IF hcPending.err THEN kmsFetched
                     ELSE kmsFetched \cup {hcPending.LatestVersion}
    /\ lastHC' = [ok |-> ~hcPending.err, done |-> TRUE,
                  version |-> hcPending.LatestVersion, before |-> keyID,
                  seen |-> (lastHC.seen \/ ~hcPending.err),
                  observed |-> IF hcPending.err THEN lastHC.observed
                               ELSE hcPending.LatestVersion]
    /\ hcPending' = NoKeyInfo
    /\ kmsResp' = NoResp
    /\ UNCHANGED <<kmsPhase, transitKey, encPending>>
    /\ UNCHANGED notKMS

\* performHealthCheck from mu.Lock on: a failed fetch only clears healthy;
\* a successful one recomputes keyID and sets healthy.
performHealthCheck ==
    /\ hcPending.pending
    /\ IF hcPending.err
       THEN /\ healthy' = FALSE
            /\ UNCHANGED <<keyID, kmsFetched>>
       ELSE /\ keyID' = FormatKeyID(KeyName, hcPending.LatestVersion)
            /\ healthy' = TRUE
            /\ kmsFetched' = kmsFetched \cup {hcPending.LatestVersion}
    /\ lastHC' = [ok |-> ~hcPending.err, done |-> TRUE,
                  version |-> hcPending.LatestVersion, before |-> keyID,
                  seen |-> (lastHC.seen \/ ~hcPending.err),
                  observed |-> IF hcPending.err THEN lastHC.observed
                               ELSE hcPending.LatestVersion]
    /\ hcPending' = NoKeyInfo
    /\ kmsResp' = NoResp
    /\ UNCHANGED <<kmsPhase, transitKey, encPending>>
    /\ UNCHANGED notKMS

\* Backend: an operator rotates the transit key (a new latest version).
RotateKey ==
    /\ transitKey.exists
    /\ transitKey.latest < MaxKeyVersion
    /\ transitKey' = [transitKey EXCEPT !.latest = @ + 1]
    /\ UNCHANGED <<keyID, healthy, kmsPhase, hcPending, encPending, kmsResp,
                   lastHC, kmsFetched>>
    /\ UNCHANGED notKMS

KMSNext ==
    \/ initialize
    \/ Status
    \/ EncryptCall
    \/ EncryptReturn
    \/ Decrypt
    \/ HealthCheckFetch
    \/ performHealthCheck
    \/ RotateKey

(***************************************************************************)
(* CSI provider: strings, file permissions, the backend's answers          *)
(***************************************************************************)

\* The clock runs from 0 to MaxTime (one unit is a minute).
MaxTime == 2

\* Config.CacheTTL of the provider, in clock units.
CacheTTL == 1

\* RefreshToken renews when at most this much lifetime is left (5 minutes).
RefreshThreshold == 5

\* The backend content generations a read can return.
MaxContent == 2

\* a ++ ":" ++ b ++ ":" ++ c, as fmt.Sprintf("%s:%s:%s", a, b, c)
JoinColon(a, b, c) == a \o <<":">> \o b \o <<":">> \o c

\* strings.HasPrefix(s, prefix)
HasPrefix(s, prefix) ==
    /\ Len(s) >= Len(prefix)
    /\ SubSeq(s, 1, Len(prefix)) = prefix

\* strings.Index(s, sub): the first 1-based position of sub in s, 0 if none.
IndexOfSub(s, sub) ==
    LET hits == {i \in 1..(Len(s) - Len(sub) + 1) :
                    SubSeq(s, i, i + Len(sub) - 1) = sub}
    IN IF hits = {} THEN 0 ELSE CHOOSE i \in hits : \A j \in hits : i <= j

\* strings.Contains(s, sub)
Contains(s, sub) == IndexOfSub(s, sub) > 0

OctalDigits == {"0", "1", "2", "3", "4", "5", "6", "7"}

DigitValue(ch) ==
    CASE ch = "0" -> 0 [] ch = "1" -> 1 [] ch = "2" -> 2 [] ch = "3" -> 3
      [] ch = "4" -> 4 [] ch = "5" -> 5 [] ch = "6" -> 6 [] ch = "7" -> 7
      [] OTHER -> 0

\* The value fmt.Sscanf(perm, "%o", &mode) leaves in mode: the octal value
\* of the longest prefix of octal digits, 0 when there is none.
RECURSIVE ScanOctal(_, _)
ScanOctal(str, acc) ==
    IF str = <<>> \/ Head(str) \notin OctalDigits THEN acc
    ELSE ScanOctal(Tail(str), acc * 8 + DigitValue(Head(str)))

\* The longest prefix of str made of the characters of set.
RECURSIVE TakeWhile(_, _)
TakeWhile(str, set) ==
    IF str = <<>> \/ Head(str) \notin set THEN <<>>
    ELSE <<Head(str)>> \o TakeWhile(Tail(str), set)

\* fmt.Sscanf(perm, "%o", &mode) with an int32 mode: leading blanks are
\* skipped, a sign is accepted, the token is the run of octal digits and
\* underscores that follows.  No token, a token strconv.ParseInt rejects
\* (an underscore) or a value outside int32 is an error of the scan, which
\* parseFilePermission drops: mode stays 0.  What follows the token is not
\* looked at.
SscanfOctal(str) ==
    LET blanks == TakeWhile(str, {" "})
        unsigned == SubSeq(str, Len(blanks) + 1, Len(str))
        signed == unsigned # <<>> /\ Head(unsigned) \in {"+", "-"}
        rest == IF signed THEN Tail(unsigned) ELSE unsigned
        tok == TakeWhile(rest, OctalDigits \cup {"_"})
        negative == signed /\ Head(unsigned) = "-"
        digits == SubSeq(tok, Len(TakeWhile(tok, {"0"})) + 1, Len(tok))
        \* int32 ends at 17777777777 and begins at -20000000000
        overflow == \/ Len(digits) > 11
                    \/ /\ Len(digits) = 11
                       /\ Head(digits) # "1"
                       /\ ~(negative /\ digits = <<"2">> \o [i \in 1..10 |-> "0"])
    IN IF tok = <<>> \/ \E i \in 1..Len(tok) : tok[i] = "_" THEN 0
       ELSE IF overflow THEN 0
       ELSE IF negative THEN 0 - ScanOctal(digits, 0)
       ELSE ScanOctal(digits, 0)

\* 0644
DefaultFileMode == 420

\* parseFilePermission: "" is 0644; one leading "0" is trimmed; a scan that
\* leaves 0 is 0644.
parseFilePermission(perm) ==
    IF perm = <<>> THEN DefaultFileMode
    ELSE LET trimmed == IF Head(perm) = "0" THEN Tail(perm) ELSE perm
             mode == SscanfOctal(trimmed)
         IN IF mode = 0 THEN DefaultFileMode ELSE mode

\* readFromOpenBao, path resolution: a path outside the secret/ and kv/
\* mounts goes under secret/data/; a mount path without /data/ gets it
\* after the mount.
ResolvePath(path) ==
    LET secretMount == <<"s", "e", "c", "r", "e", "t", "/">>
        kvMount == <<"k", "v", "/">>
        dataPart == <<"/", "d", "a", "t", "a", "/">>
        slash == IndexOfSub(path, <<"/">>)
    IN IF ~HasPrefix(path, secretMount) /\ ~HasPrefix(path, kvMount)
       THEN <<"s", "e", "c", "r", "e", "t">> \o dataPart \o path
       ELSE IF ~Contains(path, dataPart)
       THEN SubSeq(path, 1, slash - 1) \o dataPart
            \o SubSeq(path, slash + 1, Len(path))
       ELSE path

\* base64.StdEncoding.Encode, kept as an injective function of the content.
Base64Encode(content) == <<"base64(">> \o content \o <<")">>

\* json.Marshal of a one-level string map: keys in sorted order.  The model
\* maps have at most one field.
JSONMarshal(fields) ==
    IF DOMAIN fields = {} THEN <<"{", "}">>
    ELSE LET k == CHOOSE k \in DOMAIN fields : TRUE
         IN <<"{", "\"">> \o k \o <<"\"", ":", "\"">> \o fields[k] \o <<"\"", "}">>

NoFields == [k \in {} |-> <<>>]

FailedCall ==
    [err |-> TRUE, nil |-> FALSE, nested |-> FALSE, isMap |-> FALSE,
     fields |-> NoFields, version |-> <<>>, requestID |-> <<>>]

\* A secret of content generation g: the map {"x": "v<g>"}, under "data"
\* with the KV v2 metadata version g (a json.Number) when versioned,
\* directly in Data otherwise.
OkSecret(g, versioned) ==
    [err |-> FALSE, nil |-> FALSE, nested |-> versioned, isMap |-> TRUE,
     fields |-> [k \in {<<"x">>} |-> <<"v", ToString(g)>>],
     version |-> IF versioned THEN <<ToString(g)>> ELSE <<>>,
     requestID |-> <<"9", "f", "8", "6", "d", "0", "8", "1", "-", ToString(g)>>]

\* What Logical().Read of a secret path can answer: an error, a nil secret
\* (nothing at the path), a secret whose "data" member is not a map (a
\* deleted KV v2 version), a KV v1 secret, a KV v2 secret of each content
\* generation.
ReadResponses ==
    {FailedCall,
     [FailedCall EXCEPT !.err = FALSE, !.nil = TRUE],
     [FailedCall EXCEPT !.err = FALSE, !.nested = TRUE],
     OkSecret(1, FALSE)}
    \cup {OkSecret(g, TRUE) : g \in 1..MaxContent}

\* What Logical().Write to a dynamic-secret path can answer: an error, a nil
\* secret, a secret with a full request id, a secret with a short one.
WriteResponses ==
    {FailedCall,
     [FailedCall EXCEPT !.err = FALSE, !.nil = TRUE],
     OkSecret(1, FALSE),
     [OkSecret(1, FALSE) EXCEPT !.requestID = <<"r", "1">>]}

(***************************************************************************)
(* CSI provider: the secrets fetcher and its cache                         *)
(***************************************************************************)

\* The SecretObjects of the mounts.  A and B differ in path, key and name
\* and have the same cacheKey; C is a dynamic secret; D asks for an
\* encoding extractContent does not know; E is B with other options.
SecretObjectA ==
    [ObjectName |-> <<"x", ":", "y">>, SecretPath |-> <<"d", "b">>,
     SecretKey |-> <<>>, SecretArgs |-> <<>>, Encoding |-> "",
     FilePermission |-> <<>>]

SecretObjectB ==
    [ObjectName |-> <<"y">>, SecretPath |-> <<"d", "b", ":">>,
     SecretKey |-> <<"x">>, SecretArgs |-> <<>>, Encoding |-> "base64",
     FilePermission |-> <<"0", "6", "0", "0">>]

SecretObjectC ==
    [ObjectName |-> <<"c">>, SecretPath |-> <<"k", "v", "/", "c">>,
     SecretKey |-> <<"x">>, SecretArgs |-> <<"ttl">>, Encoding |-> "text",
     FilePermission |-> <<"4", "0", "0">>]

SecretObjectD ==
    [ObjectName |-> <<"d">>, SecretPath |-> <<"s", "e", "c", "r", "e", "t", "/", "d">>,
     SecretKey |-> <<"x">>, SecretArgs |-> <<>>, Encoding |-> "none",
     FilePermission |-> <<>>]

\* B again, by path, key and name, with no encoding and another mode.
SecretObjectE ==
    [SecretObjectB EXCEPT !.Encoding = "",
                          !.FilePermission = <<"0", "4", "0", "0">>]

SecretObjects ==
    {SecretObjectA, SecretObjectB, SecretObjectC, SecretObjectD, SecretObjectE}

\* The key the spec gives a cache entry: (path, field-key, object-name).
Triple(obj) == <<obj.SecretPath, obj.SecretKey, obj.ObjectName>>

NoSecret == [ObjectName |-> <<>>, Content |-> <<>>, Version |-> <<>>, Mode |-> 0]

\* extractContent: the field or the whole map as JSON, then the encoding.
extractContent(isMap, dataMap, obj) ==
    IF ~isMap THEN [err |-> TRUE, content |-> <<>>]
    ELSE IF obj.SecretKey # <<>> /\ obj.SecretKey \notin DOMAIN dataMap
    THEN [err |-> TRUE, content |-> <<>>]
    ELSE LET content == IF obj.SecretKey # <<>> THEN dataMap[obj.SecretKey]
                        ELSE JSONMarshal(dataMap)
         IN CASE obj.Encoding = "base64" ->
                     [err |-> FALSE, content |-> Base64Encode(content)]
              [] obj.Encoding \in {"text", ""} ->
                     [err |-> FALSE, content |-> content]
              [] OTHER -> [err |-> TRUE, content |-> <<>>]

\* readFromOpenBao on the backend's answer resp: kind "ok" with content and
\* version, "err", or "panic" (RequestID[:8] of a shorter request id).
readFromOpenBao(obj, resp) ==
    LET dynamic == Len(obj.SecretArgs) > 0
        failed == [kind |-> "err", Content |-> <<>>, Version |-> <<>>]
    IN IF resp.err \/ resp.nil THEN failed
       ELSE IF dynamic /\ Len(resp.requestID) < 8
       THEN [failed EXCEPT !.kind = "panic"]
       ELSE LET version ==
                    IF dynamic THEN SubSeq(resp.requestID, 1, 8)
                    ELSE IF resp.nested /\ resp.version # <<>> THEN resp.version
                    ELSE <<"1">>
                c == extractContent(dynamic \/ ~resp.nested \/ resp.isMap,
                                    resp.fields, obj)
            IN IF c.err THEN failed
               ELSE [kind |-> "ok", Content |-> c.content, Version |-> version]

\* SecretsFetcher.cacheKey
cacheKey(obj) == JoinColon(obj.SecretPath, obj.SecretKey, obj.ObjectName)

NoEntries == [k \in {} |-> [secret |-> NoSecret, expiresAt |-> 0]]

\* secretsCache.get at time t: no entry, or an entry t is after, is a miss.
get(entries, key, t) ==
    IF key \notin DOMAIN entries THEN [hit |-> FALSE, secret |-> NoSecret]
    ELSE IF t > entries[key].expiresAt THEN [hit |-> FALSE, secret |-> NoSecret]
    ELSE [hit |-> TRUE, secret |-> entries[key].secret]

\* secretsCache.set at time t
set(entries, key, secret, t) ==
    [k \in DOMAIN entries \cup {key} |->
        IF k = key THEN [secret |-> secret, expiresAt |-> t + CacheTTL]
        ELSE entries[k]]

\* The lease durations a login or renewal grants: none, or one inside the
\* refresh threshold.
LeaseDurations == {0, 3}

(***************************************************************************)
(* Backend clients: the token lease and the operations that refresh it     *)
(***************************************************************************)

\* tokenExpiry of a client that never recorded one (time.Time's zero value).
NoExpiry == [set |-> FALSE, at |-> 0]

\* The last value of the client's clock.
MaxClock == 4

\* The lease durations the backend grants a client: none, one inside the
\* refresh threshold, one beyond it.
ClientLeases == {0, 3, 7}

\* The answers to Auth().Token().RenewSelf: an error or an answer without
\* auth information, or a renewed lease.
RenewSelfAnswers ==
    {[ok |-> FALSE, lease |-> 0]}
    \cup {[ok |-> TRUE, lease |-> l] : l \in ClientLeases}

\* authenticate as RefreshToken calls it: a login request that fails or
\* grants a lease, or no request at all: a configured or environment token
\* is set again, or nothing is configured and the call fails.
Reauthentications ==
    {[requests |-> 1, ok |-> FALSE, lease |-> 0],
     [requests |-> 0, ok |-> FALSE, lease |-> 0],
     [requests |-> 0, ok |-> TRUE, lease |-> 0]}
    \cup {[requests |-> 1, ok |-> TRUE, lease |-> l] : l \in ClientLeases}

\* authenticate is reached only after a failed renewal.
ReauthenticationsAfter(renewal) ==
    IF renewal.ok THEN {[requests |-> 0, ok |-> FALSE, lease |-> 0]}
    ELSE Reauthentications

\* authenticate at time t: the expiry the client holds afterwards.  Only a
\* login that grants a positive lease records one.
ExpiryAfterLogin(expiry, t, login) ==
    IF login.ok /\ login.requests = 1 /\ login.lease > 0
    THEN [set |-> TRUE, at |-> t + login.lease]
    ELSE expiry

ClientRefreshToken_SkipsAtThreshold(expiry, t, renewal, reauth) ==
    IF ~expiry.set \/ expiry.at - t >= RefreshThreshold
    THEN [renews |-> 0, reauths |-> 0, logins |-> 0, err |-> FALSE,
          tokenExpiry |-> expiry]
    ELSE IF renewal.ok
    THEN [renews |-> 1, reauths |-> 0, logins |-> 0, err |-> FALSE,
          tokenExpiry |-> [set |-> TRUE, at |-> t + renewal.lease]]
    ELSE [renews |-> 1, reauths |-> 1, logins |-> reauth.requests,
          err |-> ~reauth.ok,
          tokenExpiry |-> ExpiryAfterLogin(expiry, t, reauth)]

\* Client.RefreshToken and AuthenticatedClient.RefreshToken at time t: the
\* requests issued, the error returned and the expiry held afterwards.
ClientRefreshToken(expiry, t, renewal, reauth) ==
    IF ~expiry.set \/ expiry.at - t > RefreshThreshold
    THEN [renews |-> 0, reauths |-> 0, logins |-> 0, err |-> FALSE,
          tokenExpiry |-> expiry]
    ELSE IF renewal.ok
    THEN [renews |-> 1, reauths |-> 0, logins |-> 0, err |-> FALSE,
          tokenExpiry |-> [set |-> TRUE, at |-> t + renewal.lease]]
    ELSE [renews |-> 1, reauths |-> 1, logins |-> reauth.requests,
          err |-> ~reauth.ok,
          tokenExpiry |-> ExpiryAfterLogin(expiry, t, reauth)]

\* The operations of the two clients that talk to the backend.
ClientOperations ==
    {"TransitEncrypt", "TransitDecrypt", "TransitGetKeyInfo",
     "TransitCreateKey", "KVRead", "KVWrite", "ReadSecret", "WriteSecret"}

NoRefresh ==
    [renews |-> 0, reauths |-> 0, logins |-> 0, err |-> FALSE,
     tokenExpiry |-> NoExpiry]

NoCall ==
    [op |-> None, t |-> 0, before |-> NoExpiry,
     renewal |-> [ok |-> FALSE, lease |-> 0],
     reauth |-> [requests |-> 0, ok |-> FALSE, lease |-> 0],
     refresh |-> NoRefresh, sent |-> 0, expired |-> FALSE, err |-> FALSE]

\* What a call leaves in the history.
CallRecord(op, renewal, reauth, ref, sent, err) ==
    [op |-> op, t |-> clientNow, before |-> tokenExpiry,
     renewal |-> IF ref.renews > 0 THEN renewal ELSE NoCall.renewal,
     reauth |-> IF ref.reauths > 0 THEN reauth ELSE NoCall.reauth,
     refresh |-> ref, sent |-> sent,
     expired |-> sent > 0 /\ ref.tokenExpiry.set
                    /\ ref.tokenExpiry.at < clientNow,
     err |-> err]

\* A direct call of RefreshToken.
RefreshTokenCall ==
    \E renewal \in RenewSelfAnswers :
      \E reauth \in ReauthenticationsAfter(renewal) :
        LET ref == ClientRefreshToken(tokenExpiry, clientNow, renewal, reauth)
        IN /\ tokenExpiry' = ref.tokenExpiry
           /\ lastCall' = CallRecord("RefreshToken", renewal, reauth, ref,
                                     0, ref.err)
           /\ UNCHANGED clientNow
           /\ UNCHANGED notClient

\* One operation: RefreshToken, whose error is logged as a warning only,
\* then the operation's own request, whose answer decides the result.
ClientOperation ==
    \E op \in ClientOperations, renewal \in RenewSelfAnswers,
       answerOK \in BOOLEAN :
      \E reauth \in ReauthenticationsAfter(renewal) :
        LET ref == ClientRefreshToken(tokenExpiry, clientNow, renewal, reauth)
        IN /\ tokenExpiry' = ref.tokenExpiry
           /\ lastCall' = CallRecord(op, renewal, reauth, ref, 1, ~answerOK)
           /\ UNCHANGED clientNow
           /\ UNCHANGED notClient

ClientTick ==
    /\ clientNow < MaxClock
    /\ clientNow' = clientNow + 1
    /\ UNCHANGED <<tokenExpiry, lastCall>>
    /\ UNCHANGED notClient

\* After NewClient / NewAuthenticatedClient: the first authenticate has
\* recorded the expiry of a positive lease, or none.
ClientInit ==
    /\ clientNow = 0
    /\ tokenExpiry \in
         {ExpiryAfterLogin(NoExpiry, 0, login) :
            login \in {a \in Reauthentications : a.ok}}
    /\ lastCall = NoCall

ClientNext == RefreshTokenCall \/ ClientOperation \/ ClientTick

\* AuthenticatedClient.RefreshToken at time t inside a fetch: the requests
\* it issues.  There a renewal and a re-login grant the lease of the first
\* login, so the expiry they store is the one already held.
RefreshToken(client, t) ==
    LET ref == ClientRefreshToken(client.tokenExpiry, t,
                   [ok |-> client.renewOK, lease |-> 0],
                   [requests |-> 1, ok |-> TRUE, lease |-> 0])
    IN [renews |-> ref.renews, logins |-> ref.logins]

NoStored ==
    [has |-> FALSE, secret |-> NoSecret, exp |-> 0, tried |-> FALSE,
     role |-> ""]

\* One entry of the fetch log: the object's key, how the fetch ended ("hit",
\* "fetched", "failed", "panic"), what it returned, the backend requests it
\* issued, the entry the key's latest storing fetch had stored before, and
\* the one it has stored after.
LogEntry(obj, kind, secret, reqs, pre, post) ==
    [triple |-> Triple(obj), obj |-> obj, kind |-> kind, secret |-> secret,
     reqs |-> reqs,
     path |-> IF reqs > 0 THEN ResolvePath(obj.SecretPath) ELSE <<>>,
     pre |-> pre, post |-> post]

\* A variant of CacheAfter that stores whatever the read produced.
CacheAfter_StoresFailure(entries, key, secret, t, failed) ==
    set(entries, key, secret, t)

\* fetchSecret after readFromOpenBao: an error returns before cache.set, a
\* panic unwinds before it, a success stores the fetched secret.
CacheAfter(entries, key, secret, t, failed) ==
    IF failed THEN entries ELSE set(entries, key, secret, t)

\* The log entry of the fetch that took the cache from before to after,
\* with whether that fetch left the cache as it was.
Audited(before, after) ==
    [after EXCEPT !.log[Len(after.log)] =
        [key \in DOMAIN @ \cup {"kept"} |->
            IF key = "kept" THEN after.cache = before.cache ELSE @[key]]]

\* fetchSecret, after a cache miss, on the backend's answer resp.
FetchMiss(obj, client, t, acc, resp) ==
    LET ref == RefreshToken(client, t)
        r == readFromOpenBao(obj, resp)
        dynamic == Len(obj.SecretArgs) > 0
        secret == [ObjectName |-> obj.ObjectName, Content |-> r.Content,
                   Version |-> r.Version,
                   Mode |-> parseFilePermission(obj.FilePermission)]
        counted == [acc EXCEPT !.renews = @ + ref.renews,
                               !.logins = @ + ref.logins,
                               !.reads = @ + (IF dynamic THEN 0 ELSE 1),
                               !.writes = @ + (IF dynamic THEN 1 ELSE 0),
                               !.cache = CacheAfter(@, cacheKey(obj), secret, t,
                                                    r.kind \in {"panic", "err"})]
        reqs == ref.renews + ref.logins + 1
        pre == acc.stored[Triple(obj)]
        expired == pre.has /\ t > pre.exp
    IN CASE r.kind = "panic" ->
                [counted EXCEPT !.panicked = TRUE,
                     !.log = Append(@, LogEntry(obj, "panic", NoSecret, reqs, pre, pre))]
         [] r.kind = "err" ->
                [counted EXCEPT !.fetchErrors = Append(@, obj.ObjectName),
                     !.stored[Triple(obj)].tried = @ \/ expired,
                     !.log = Append(@, LogEntry(obj, "failed", NoSecret, reqs, pre, pre))]
         [] OTHER ->
                [counted EXCEPT !.secrets = Append(@, secret),
                     !.stored[Triple(obj)] =
                         [has |-> TRUE, secret |-> secret,
                          exp |-> t + CacheTTL, tried |-> FALSE,
                          role |-> client.RoleName],
                     !.log = Append(@, LogEntry(obj, "fetched", secret, reqs, pre,
                                        [has |-> TRUE, secret |-> secret,
                                         exp |-> t + CacheTTL, tried |-> FALSE,
                                         role |-> client.RoleName]))]

\* fetchSecret: the cache first, the backend on a miss.  The set of
\* outcomes, one per answer the backend can give.
fetchSecret(obj, client, t, acc) ==
    LET cached == get(acc.cache, cacheKey(obj), t)
        pre == acc.stored[Triple(obj)]
    IN IF cached.hit
       THEN {Audited(acc,
                [acc EXCEPT !.secrets = Append(@, cached.secret),
                  !.stored[Triple(obj)].tried = @ \/ (pre.has /\ t > pre.exp),
                  !.log = Append(@, LogEntry(obj, "hit", cached.secret, 0, pre, pre))])}
       ELSE {Audited(acc, FetchMiss(obj, client, t, acc, resp)) :
                resp \in IF Len(obj.SecretArgs) > 0 THEN WriteResponses
                         ELSE ReadResponses}

\* FetchSecrets: every object in order, errors collected, the fetched
\* secrets returned beside them; a panic ends the loop.
RECURSIVE FetchSecrets(_, _, _, _)
FetchSecrets(objects, client, t, acc) ==
    IF objects = <<>> \/ acc.panicked THEN {acc}
    ELSE UNION {FetchSecrets(Tail(objects), client, t, a) :
                    a \in fetchSecret(Head(objects), client, t, acc)}

(***************************************************************************)
(* CSI provider: Mount                                                     *)
(***************************************************************************)

Absent == [has |-> FALSE, val |-> ""]
Given(v) == [has |-> TRUE, val |-> v]

\* The "objects" attribute: absent, a string neither YAML nor JSON parses
\* into a list of objects, or a list.
NoObjects == [has |-> FALSE, parses |-> FALSE, list |-> <<>>]
BadObjects == [has |-> TRUE, parses |-> FALSE, list |-> <<>>]
Objects(list) == [has |-> TRUE, parses |-> TRUE, list |-> list]

Attributes(kind, roleName, authMethod, objects) ==
    [kind |-> kind, roleName |-> roleName, authMethod |-> authMethod,
     objects |-> objects]

ObjectLists ==
    {<<SecretObjectA>>, <<SecretObjectE, SecretObjectB>>,
     <<SecretObjectC, SecretObjectD, SecretObjectA>>}

\* The attributes of the Mount requests: the empty string, a string that
\* is no JSON map, and maps with and without a role, an auth method and
\* objects.
MountAttributes ==
    {Attributes("empty", Absent, Absent, NoObjects),
     Attributes("badjson", Absent, Absent, NoObjects),
     Attributes("map", Absent, Absent, Objects(<<SecretObjectA>>)),
     Attributes("map", Given(""), Absent, Objects(<<SecretObjectA>>)),
     Attributes("map", Given("app"), Absent, NoObjects),
     Attributes("map", Given("app"), Absent, BadObjects),
     Attributes("map", Given("app"), Absent, Objects(<<>>)),
     Attributes("map", Given(""), Absent, Objects(<<>>)),
     Attributes("map", Given("app"), Given("token"), Objects(<<SecretObjectA>>)),
     Attributes("map", Given("app"), Given("ldap"), Objects(<<SecretObjectA>>))}
    \cup {Attributes("map", Given("app"), Absent, Objects(l)) : l \in ObjectLists}

\* Config.DefaultAuthMethod
DefaultAuthMethod == "kubernetes"

\* parseMountParams without the check of the objects list.
parseMountParams_NoObjectsCheck(attribs) ==
    LET RoleName == IF attribs.roleName.has THEN attribs.roleName.val
                    ELSE DefaultRole
        AuthMethod == IF attribs.authMethod.has THEN attribs.authMethod.val
                      ELSE DefaultAuthMethod
        params(err, parsed) ==
            [err |-> err, parsed |-> parsed, RoleName |-> RoleName,
             AuthMethod |-> AuthMethod, Objects |-> attribs.objects.list]
    IN IF attribs.kind # "map" THEN params(TRUE, FALSE)
       ELSE IF attribs.objects.has /\ ~attribs.objects.parses THEN params(TRUE, FALSE)
       ELSE IF RoleName = "" THEN params(TRUE, TRUE)
       ELSE params(FALSE, TRUE)

\* parseMountParams: the defaults, the attributes over them, the objects
\* list, then the validation.  attribs of a kind other than "map" is the
\* nil map.
parseMountParams(attribs) ==
    LET RoleName == IF attribs.roleName.has THEN attribs.roleName.val
                    ELSE DefaultRole
        AuthMethod == IF attribs.authMethod.has THEN attribs.authMethod.val
                      ELSE DefaultAuthMethod
        params(err, parsed) ==
            [err |-> err, parsed |-> parsed, RoleName |-> RoleName,
             AuthMethod |-> AuthMethod, Objects |-> attribs.objects.list]
    IN IF attribs.kind # "map" THEN params(TRUE, FALSE)
       ELSE IF attribs.objects.has /\ ~attribs.objects.parses THEN params(TRUE, FALSE)
       ELSE IF RoleName = "" THEN params(TRUE, TRUE)
       ELSE IF Len(attribs.objects.list) = 0 THEN params(TRUE, TRUE)
       ELSE params(FALSE, TRUE)

\* What authentication meets: a backend address or none, a service account
\* token or none, a token in the environment or none, the login's outcome,
\* the lease it grants, the outcome of later renewals.
AuthEnv(addr, jwt, envToken, loginOK, lease, renewOK) ==
    [addr |-> addr, jwt |-> jwt, envToken |-> envToken, loginOK |-> loginOK,
     lease |-> lease, renewOK |-> renewOK]

AuthEnvs ==
    {AuthEnv(FALSE, TRUE, TRUE, TRUE, 0, TRUE),
     AuthEnv(TRUE, FALSE, FALSE, TRUE, 0, TRUE),
     AuthEnv(TRUE, TRUE, TRUE, FALSE, 0, TRUE)}
    \cup {AuthEnv(TRUE, TRUE, TRUE, TRUE, l, TRUE) : l \in LeaseDurations}
    \cup {AuthEnv(TRUE, TRUE, TRUE, TRUE, l, FALSE) :
            l \in {d \in LeaseDurations : 0 < d /\ d <= RefreshThreshold}}

\* Provider.authenticate, NewAuthenticatedClient and
\* AuthenticatedClient.authenticate at time t: the client, or an error, and
\* the login requests issued.
authenticate(params, env, t) ==
    LET result(err, logins, expiry) ==
            [err |-> err, logins |-> logins,
             client |-> [tokenExpiry |-> expiry, renewOK |-> env.renewOK,
                         RoleName |-> params.RoleName]]
    IN IF ~env.addr THEN result(TRUE, 0, NoExpiry)
       ELSE CASE params.AuthMethod \in {"kubernetes", "jwt"} ->
                    IF ~env.jwt THEN result(TRUE, 0, NoExpiry)
                    ELSE IF ~env.loginOK THEN result(TRUE, 1, NoExpiry)
                    ELSE result(FALSE, 1,
                                IF env.lease > 0
                                THEN [set |-> TRUE, at |-> t + env.lease]
                                ELSE NoExpiry)
              [] params.AuthMethod = "token" ->
                    IF env.envToken THEN result(FALSE, 0, NoExpiry)
                    ELSE result(TRUE, 0, NoExpiry)
              [] OTHER -> result(TRUE, 0, NoExpiry)

NoParams == [parsed |-> FALSE, RoleName |-> "", nObjects |-> 0]

\* No Mount call since the clock last moved.  Of a call: whether it
\* returned, the Go error and the response it returned, the object names
\* the returned error carries (pb.Error has a Code and nothing else), the
\* requests it issued, and what it saw on the way (the parameters at validation, the
\* outcome of authentication, what FetchSecrets returned).
NoMount ==
    [called |-> FALSE, returned |-> FALSE, rpcErr |-> FALSE, code |-> "",
     files |-> <<>>, versions |-> <<>>,
     logins |-> 0, renews |-> 0, reads |-> 0, writes |-> 0,
     named |-> <<>>, params |-> NoParams, authOK |-> FALSE,
     secrets |-> <<>>, fetchErrors |-> <<>>, panicked |-> FALSE, log |-> <<>>]

File(secret) ==
    [Path |-> secret.ObjectName, Mode |-> secret.Mode, Contents |-> secret.Content]

ObjectVersion(secret) == [Id |-> secret.ObjectName, Version |-> secret.Version]

NoStoredEntries == [tr \in {Triple(o) : o \in SecretObjects} |-> NoStored]

\* The accumulator FetchSecrets starts from.
FetchStart ==
    [cache |-> cache, stored |-> csiStored, secrets |-> <<>>,
     fetchErrors |-> <<>>, log |-> <<>>, panicked |-> FALSE,
     logins |-> 0, renews |-> 0, reads |-> 0, writes |-> 0]

\* The Mount call's record after FetchSecrets ended in out.
Fetched(call, out) ==
    [call EXCEPT !.logins = @ + out.logins, !.renews = out.renews,
                 !.reads = out.reads, !.writes = out.writes,
                 !.secrets = out.secrets, !.fetchErrors = out.fetchErrors,
                 !.panicked = out.panicked, !.log = out.log]

\* Mount, from the return of FetchSecrets: code Internal and nothing else
\* on an error, the files and object versions otherwise.
MountResponse(call, out) ==
    IF Len(out.fetchErrors) > 0
    THEN [Fetched(call, out) EXCEPT !.code = "Internal"]
    ELSE [Fetched(call, out) EXCEPT
            !.files = [i \in 1..Len(out.secrets) |-> File(out.secrets[i])],
            !.versions = [i \in 1..Len(out.secrets) |-> ObjectVersion(out.secrets[i])]]

\* Mount, authentication failed: code PermissionDenied.
MountAuthFailure(call, a) ==
    [call EXCEPT !.code = "PermissionDenied", !.logins = a.logins]

\* Provider.Mount.  A panic in the handler (the gRPC server recovers none)
\* ends the process: no response, the cache gone.
Mount ==
    /\ csiUp
    /\ \E attributes \in MountAttributes :
         LET p == parseMountParams(attributes)
             call == [NoMount EXCEPT !.called = TRUE, !.returned = TRUE,
                         !.params = [parsed |-> p.parsed, RoleName |-> p.RoleName,
                                     nObjects |-> Len(p.Objects)]]
         IN IF attributes.kind = "badjson" \/ p.err
            THEN /\ lastMount' = [call EXCEPT !.code = "InvalidArgument"]
                 /\ UNCHANGED <<cache, csiStored, csiUp>>
            ELSE \E env \in AuthEnvs :
                   LET a == authenticate(p, env, now)
                   IN IF a.err
                      THEN /\ lastMount' = MountAuthFailure(call, a)
                           /\ UNCHANGED <<cache, csiStored, csiUp>>
                      ELSE \E out \in FetchSecrets(p.Objects, a.client, now, FetchStart) :
                             LET authed == [call EXCEPT !.authOK = TRUE,
                                                        !.logins = a.logins]
                             IN IF out.panicked
                                THEN /\ lastMount' = [Fetched(authed, out) EXCEPT
                                                         !.returned = FALSE]
                                     /\ cache' = NoEntries
                                     /\ csiStored' = NoStoredEntries
                                     /\ csiUp' = FALSE
                                ELSE /\ lastMount' = MountResponse(authed, out)
                                     /\ cache' = out.cache
                                     /\ csiStored' = out.stored
                                     /\ csiUp' = TRUE
    /\ UNCHANGED <<now, DefaultRole>>
    /\ UNCHANGED notCSI

\* The provider process starts again: NewProvider, an empty cache.
RestartProvider ==
    /\ ~csiUp
    /\ csiUp' = TRUE
    /\ cache' = NoEntries
    /\ csiStored' = NoStoredEntries
    /\ lastMount' = NoMount
    /\ UNCHANGED <<now, DefaultRole>>
    /\ UNCHANGED notCSI

\* Time passes.
Tick ==
    /\ now < MaxTime
    /\ now' = now + 1
    /\ lastMount' = NoMount
    /\ UNCHANGED <<cache, csiStored, csiUp, DefaultRole>>
    /\ UNCHANGED notCSI

DefaultRoles == {"", "default"}

CSIInit ==
    /\ cache = NoEntries
    /\ now = 0
    /\ lastMount = NoMount
    /\ csiStored = NoStoredEntries
    /\ csiUp = TRUE
    /\ DefaultRole \in DefaultRoles

CSINext == Mount \/ RestartProvider \/ Tick

(***************************************************************************)
(* BaoPolicy: rendering the rules                                          *)
(***************************************************************************)

\* The orders in which a Go range can visit the keys of a map.
IterationOrders(keys) ==
    {order \in [1..Cardinality(keys) -> keys] :
        \A i, j \in 1..Cardinality(keys) : order[i] = order[j] => i = j}

\* "v1", "v2", ...: the quoted values joined by ", ".
RECURSIVE QuotedList(_)
QuotedList(values) ==
    IF values = <<>> THEN <<>>
    ELSE <<"\"", Head(values), "\"">>
         \o (IF Len(values) > 1 THEN <<", ">> ELSE <<>>)
         \o QuotedList(Tail(values))

\* The lines of allowed_parameters, the keys visited in the given order.
RECURSIVE AllowedLines(_, _)
AllowedLines(allowed, order) ==
    IF order = <<>> THEN <<>>
    ELSE <<"    \"", Head(order), "\" = [">> \o QuotedList(allowed[Head(order)])
         \o <<"]\n">> \o AllowedLines(allowed, Tail(order))

\* The lines of denied_parameters.
RECURSIVE DeniedLines(_)
DeniedLines(keys) ==
    IF keys = <<>> THEN <<>>
    ELSE <<"    \"", Head(keys), "\" = []\n">> \o DeniedLines(Tail(keys))

\* ToHCL, one rule: the pieces of text appended to hcl.
RuleHCL(rule, order) ==
    <<"path \"", rule.Path, "\" {\n", "  capabilities = [">>
    \o QuotedList(rule.Capabilities) \o <<"]\n">>
    \o (IF Cardinality(DOMAIN rule.AllowedParameters) > 0
        THEN <<"  allowed_parameters = {\n">>
             \o AllowedLines(rule.AllowedParameters, order) \o <<"  }\n">>
        ELSE <<>>)
    \o (IF Len(rule.DeniedParameters) > 0
        THEN <<"  denied_parameters = {\n">>
             \o DeniedLines(rule.DeniedParameters) \o <<"  }\n">>
        ELSE <<>>)
    \o (IF Len(rule.RequiredParameters) > 0
        THEN <<"  required_parameters = [">>
             \o QuotedList(rule.RequiredParameters) \o <<"]\n">>
        ELSE <<>>)
    \o (IF rule.MinWrappingTTL # ""
        THEN <<"  min_wrapping_ttl = \"", rule.MinWrappingTTL, "\"\n">> ELSE <<>>)
    \o (IF rule.MaxWrappingTTL # ""
        THEN <<"  max_wrapping_ttl = \"", rule.MaxWrappingTTL, "\"\n">> ELSE <<>>)
    \o <<"}\n\n">>

\* BaoPolicy.ToHCL: the documents a run can return, one per order in which
\* the range over each rule's AllowedParameters visits the keys.
RECURSIVE ToHCL(_)
ToHCL(rules) ==
    IF rules = <<>> THEN {<<>>}
    ELSE {RuleHCL(Head(rules), order) \o rest :
            order \in IterationOrders(DOMAIN Head(rules).AllowedParameters),
            rest \in ToHCL(Tail(rules))}

\* hex(sha256(text)[:8]); distinct texts of the model have distinct hashes.
Sha256Hex8(text) == <<"sha256/8">> \o text

NoParameters == [k \in {} |-> <<>>]

RuleRead ==
    [Path |-> "secret/data/app/*", Capabilities |-> <<"read", "list">>,
     AllowedParameters |-> NoParameters, DeniedParameters |-> <<>>,
     RequiredParameters |-> <<>>, MinWrappingTTL |-> "", MaxWrappingTTL |-> ""]

RuleOneKey ==
    [RuleRead EXCEPT !.Path = "pki/issue/web", !.Capabilities = <<"update">>,
                     !.AllowedParameters = [k \in {"ttl"} |-> <<"1h">>]]

RuleTwoKeys ==
    [Path |-> "transit/encrypt/*", Capabilities |-> <<"create", "update">>,
     AllowedParameters |->
        [k \in {"context", "nonce"} |-> IF k = "nonce" THEN <<>> ELSE <<"a", "b">>],
     DeniedParameters |-> <<"key_version">>, RequiredParameters |-> <<"context">>,
     MinWrappingTTL |-> "1m", MaxWrappingTTL |-> "1h"]

\* The rule lists a BaoPolicy spec takes.
RuleLists == {<<RuleRead>>, <<RuleOneKey, RuleRead>>, <<RuleTwoKeys>>}

(***************************************************************************)
(* BaoPolicy: the controller                                               *)
(***************************************************************************)

\* Spec edits stop at this generation.
MaxGeneration == 2

PolicyNames == {"", "custom"}

\* A BaoPolicy as created: generation 1, no finalizer, an empty status.
NewBaoPolicy(name, rules) ==
    [exists |-> TRUE, deleting |-> FALSE, finalizer |-> FALSE, Name |-> "pol",
     Generation |-> 1, Spec |-> [PolicyName |-> name, Rules |-> rules],
     Status |-> [PolicyVersion |-> <<>>, AppliedPolicyName |-> "",
                 Ready |-> "", ObservedGeneration |-> 0, LastSyncTime |-> 0]]

\* The resource after the API server has removed it.
NoBaoPolicy == [NewBaoPolicy("", <<>>) EXCEPT !.exists = FALSE]

\* BaoPolicy.GetPolicyName
GetPolicyName(policy) ==
    IF policy.Spec.PolicyName # "" THEN policy.Spec.PolicyName ELSE policy.Name

NoSynced == [has |-> FALSE, Rules |-> <<>>, written |-> <<>>]

addFinalizer_IgnoresError(resource, updateOK) ==
    IF resource.finalizer THEN [err |-> FALSE, resource |-> resource]
    ELSE IF updateOK
    THEN [err |-> FALSE, resource |-> [resource EXCEPT !.finalizer = TRUE]]
    ELSE [err |-> FALSE, resource |-> resource]

\* The finalizer step of both Reconciles: a resource without the finalizer
\* gets it through r.Update, whose error ends the reconcile.
addFinalizer(resource, updateOK) ==
    IF resource.finalizer THEN [err |-> FALSE, resource |-> resource]
    ELSE IF updateOK
    THEN [err |-> FALSE, resource |-> [resource EXCEPT !.finalizer = TRUE]]
    ELSE [err |-> TRUE, resource |-> resource]

NoPolicyReconcile ==
    [ran |-> FALSE, deletion |-> FALSE, writes |-> 0, Rules |-> <<>>,
     synced |-> NoSynced, result |-> ""]

\* syncPolicy on the in-memory resource, with the document this run of
\* ToHCL returned: the error, the write calls issued, the resource and the
\* backend afterwards.
syncPolicy(policy, hcl, writeOK) ==
    LET version == Sha256Hex8(hcl)
        policyName == GetPolicyName(policy)
        out(err, writes, p, b) ==
            [err |-> err, writes |-> writes, policy |-> p, backend |-> b]
    IN IF ~polClient THEN out(TRUE, 0, policy, polBackend)
       ELSE IF policy.Status.PolicyVersion = version
       THEN out(FALSE, 0, policy, polBackend)
       ELSE IF ~writeOK THEN out(TRUE, 1, policy, polBackend)
       ELSE out(FALSE, 1,
                [policy EXCEPT !.Status.PolicyVersion = version,
                               !.Status.AppliedPolicyName = policyName],
                [polBackend EXCEPT ![policyName] = hcl])

PolicyHandleDeletion_DeletesDocument(updateOK) ==
    /\ baoPolicy' = IF baoPolicy.finalizer /\ updateOK THEN NoBaoPolicy
                    ELSE baoPolicy
    /\ polLast' = [NoPolicyReconcile EXCEPT !.ran = TRUE, !.deletion = TRUE,
                       !.Rules = baoPolicy.Spec.Rules, !.synced = polSynced,
                       !.writes = IF polClient THEN 1 ELSE 0,
                       !.result = IF baoPolicy.finalizer /\ ~updateOK
                                  THEN "error" ELSE ""]
    /\ polBackend' = IF polClient
                     THEN [polBackend EXCEPT ![GetPolicyName(baoPolicy)] = <<>>]
                     ELSE polBackend
    /\ UNCHANGED polSynced

\* BaoPolicyReconciler.handleDeletion: nothing is sent to the backend; the
\* finalizer goes, and with it the resource.
PolicyHandleDeletion(updateOK) ==
    /\ baoPolicy' = IF baoPolicy.finalizer /\ updateOK THEN NoBaoPolicy
                    ELSE baoPolicy
    /\ polLast' = [NoPolicyReconcile EXCEPT !.ran = TRUE, !.deletion = TRUE,
                       !.Rules = baoPolicy.Spec.Rules, !.synced = polSynced,
                       !.result = IF baoPolicy.finalizer /\ ~updateOK
                                  THEN "error" ELSE ""]
    /\ UNCHANGED <<polBackend, polSynced>>

\* BaoPolicyReconciler.Reconcile of the resource: the finalizer, syncPolicy,
\* the status update, the requeue.  updateOK, writeOK and statusOK are the
\* outcomes of r.Update, of the backend write and of r.Status().Update.
\* Every successful reconcile stamps status.lastSyncTime anew; the model
\* keeps of the stamp only that it differs from the one before.
PolicyReconcileWith(updateOK, writeOK, statusOK) ==
    /\ baoPolicy.exists
    /\ \E hcl \in ToHCL(baoPolicy.Spec.Rules) :
         LET ran == [NoPolicyReconcile EXCEPT !.ran = TRUE,
                        !.Rules = baoPolicy.Spec.Rules, !.synced = polSynced]
             held == addFinalizer(baoPolicy, updateOK).resource
             sync == syncPolicy(held, hcl, writeOK)
             failed == [held EXCEPT !.Status.Ready = "False"]
             done == [sync.policy EXCEPT
                         !.Status.ObservedGeneration = held.Generation,
                         !.Status.LastSyncTime = 1 - @,
                         !.Status.Ready = "True"]
         IN IF baoPolicy.deleting THEN PolicyHandleDeletion(updateOK)
            ELSE IF addFinalizer(baoPolicy, updateOK).err
            THEN /\ polLast' = [ran EXCEPT !.result = "error"]
                 /\ UNCHANGED <<baoPolicy, polBackend, polSynced>>
            ELSE IF sync.err
            THEN /\ baoPolicy' = IF statusOK THEN failed ELSE held
                 /\ polLast' = [ran EXCEPT !.writes = sync.writes,
                                   !.result = IF statusOK THEN "requeue30s"
                                              ELSE "error"]
                 /\ UNCHANGED <<polBackend, polSynced>>
            ELSE /\ baoPolicy' = IF statusOK THEN done ELSE held
                 /\ polBackend' = sync.backend
                 /\ polLast' = [ran EXCEPT !.writes = sync.writes,
                                   !.result = IF statusOK THEN "requeue5m"
                                              ELSE "error"]
                 /\ polSynced' =
                        IF sync.writes > 0 /\ statusOK
                        THEN [has |-> TRUE, Rules |-> baoPolicy.Spec.Rules,
                              written |-> hcl]
                        ELSE IF sync.writes > 0
                        THEN [polSynced EXCEPT !.written = hcl]
                        ELSE polSynced
    /\ UNCHANGED polClient

\* A reconcile, whatever the API server and the backend answer.
PolicyReconcile ==
    /\ \E updateOK \in BOOLEAN, writeOK \in BOOLEAN, statusOK \in BOOLEAN :
            PolicyReconcileWith(updateOK, writeOK, statusOK)
    /\ UNCHANGED notPolicy

\* A reconcile with the API server and the backend reachable.
PolicyReconcileReachable ==
    /\ PolicyReconcileWith(TRUE, TRUE, TRUE)
    /\ UNCHANGED notPolicy

\* Out-of-band drift: somebody removes the policy document of a synced
\* resource from the backend, or replaces it by another one.
PolicyDrift ==
    /\ baoPolicy.exists /\ baoPolicy.Status.AppliedPolicyName # ""
    /\ \E doc \in {<<>>, <<"path \"*\" { capabilities = [\"sudo\"] }">>,
                     <<"path \"*\" { capabilities = [\"deny\"] }">>} :
         /\ polBackend[baoPolicy.Status.AppliedPolicyName] # doc
         /\ polBackend' =
              [polBackend EXCEPT ![baoPolicy.Status.AppliedPolicyName] = doc]
    /\ UNCHANGED <<baoPolicy, polClient, polLast, polSynced>>
    /\ UNCHANGED notPolicy

\* A user edits the spec: other rules, another policy name.
PolicyEdit ==
    /\ baoPolicy.exists /\ ~baoPolicy.deleting
    /\ baoPolicy.Generation < MaxGeneration
    /\ \E name \in PolicyNames, rules \in RuleLists :
         /\ [PolicyName |-> name, Rules |-> rules] # baoPolicy.Spec
         /\ baoPolicy' = [baoPolicy EXCEPT !.Generation = @ + 1,
                              !.Spec = [PolicyName |-> name, Rules |-> rules]]
    /\ polLast' = NoPolicyReconcile
    /\ UNCHANGED <<polBackend, polClient, polSynced>>
    /\ UNCHANGED notPolicy

\* A user deletes the resource: with the finalizer it gets a deletion
\* timestamp, without it is gone.
PolicyDelete ==
    /\ baoPolicy.exists /\ ~baoPolicy.deleting
    /\ baoPolicy' = IF baoPolicy.finalizer
                    THEN [baoPolicy EXCEPT !.deleting = TRUE]
                    ELSE NoBaoPolicy
    /\ polLast' = NoPolicyReconcile
    /\ UNCHANGED <<polBackend, polClient, polSynced>>
    /\ UNCHANGED notPolicy

NoDocuments == [n \in {"pol", "custom"} |-> <<>>]

PolicyInit ==
    /\ baoPolicy \in {NewBaoPolicy(name, rules) :
                        name \in PolicyNames, rules \in RuleLists}
    /\ polBackend = NoDocuments
    /\ polClient \in BOOLEAN
    /\ polLast = NoPolicyReconcile
    /\ polSynced = NoSynced

PolicyNext == PolicyReconcile \/ PolicyEdit \/ PolicyDelete

\* The steps of a BaoPolicy that is neither edited nor deleted, with the
\* API server and the backend reachable, and the drift of its document.
PolicyFairNext == PolicyReconcileReachable \/ PolicyDrift

(***************************************************************************)
(* BaoSecret: templates and the version hash                               *)
(***************************************************************************)

\* Strings longer than this are not built.
MaxStringLen == 8

EmptyMap == [k \in {} |-> <<>>]

\* fmt.Sprintf("{{ .Data.%s }}", k)
Placeholder(k) == <<"{{ .Data.", k, " }}">>

\* indexOf: the index of the first occurrence, from 0; -1 when there is none.
indexOf(s, substr) == IndexOfSub(s, substr) - 1

\* What a call that never returns stands for.
NoReturn == <<"(no return)">>

\* replaceAll: the loop of the code, one replacement of the first
\* occurrence per round, until a round changes nothing.  A string that
\* outgrows MaxStringLen is one the loop keeps growing: the call does not
\* return.  (The one-element set binds the round's result to a value.)
RECURSIVE replaceAll(_, _, _)
replaceAll(s, old, new) ==
    LET idx == indexOf(s, old)
        newS == IF idx >= 0
                THEN SubSeq(s, 1, idx) \o new
                         \o SubSeq(s, idx + Len(old) + 1, Len(s))
                ELSE s
    IN CHOOSE result \in {IF next = s THEN s
                          ELSE IF Len(next) > MaxStringLen THEN NoReturn
                          ELSE replaceAll(next, old, new)
                          : next \in {newS}} : TRUE

\* The inner loop of applyTemplate: one replaceAll per source field, in the
\* order the map iteration delivers the fields.
RECURSIVE Substitute(_, _, _)
Substitute(value, sourceData, order) ==
    IF value = NoReturn \/ order = <<>> THEN value
    ELSE CHOOSE result \in
            {Substitute(replaced, sourceData, Tail(order))
             : replaced \in {replaceAll(value, Placeholder(Head(order)),
                                        sourceData[Head(order)])}} : TRUE

\* applyTemplate: the results the iteration orders allow.  The data is
\* copied, then every StringData field and every Data field is rendered.
applyTemplate(data, template, sourceData) ==
    LET orders == IterationOrders(DOMAIN sourceData)
        strings == DOMAIN template.StringData
        datas == DOMAIN template.Data
    IN {LET fromStrings == [key \in strings |->
                Substitute(template.StringData[key], sourceData, s[key])]
            fromData == [key \in datas |->
                Substitute(template.Data[key], sourceData, d[key])]
        IN IF \/ \E key \in strings : fromStrings[key] = NoReturn
              \/ \E key \in datas : fromData[key] = NoReturn
           THEN [returns |-> FALSE, data |-> EmptyMap]
           ELSE [returns |-> TRUE,
                 data |-> [key \in DOMAIN data \cup strings \cup datas |->
                             IF key \in datas THEN fromData[key]
                             ELSE IF key \in strings THEN fromStrings[key]
                             ELSE data[key]]]
        : s \in [strings -> orders], d \in [datas -> orders]}

\* The field names of the model, in the order json.Marshal sorts them.
SortedFields == <<"a", "b", "out">>

\* json.Marshal of a map[string][]byte: the keys sorted, the values base64.
RECURSIVE MarshalData(_, _)
MarshalData(data, fields) ==
    IF fields = <<>> THEN <<>>
    ELSE (IF Head(fields) \in DOMAIN data
          THEN <<Head(fields), ":">> \o Base64Encode(data[Head(fields)])
          ELSE <<>>) \o MarshalData(data, Tail(fields))

\* calculateVersion
calculateVersion(data) == Sha256Hex8(MarshalData(data, SortedFields))

(***************************************************************************)
(* BaoSecret: the controller                                               *)
(***************************************************************************)

\* The namespace of the BaoSecret, and the namespaces a target may be in.
SecretNamespace == "ns"

Namespaces == {"ns", "other"}

NoTemplate == [has |-> FALSE, StringData |-> EmptyMap, Data |-> EmptyMap]

\* time.Minute, defaultRefreshInterval and the delay of the retry after a
\* failed sync, in seconds.
Minute == 60

defaultRefreshInterval == 3600

RetryDelay == 30

\* The numbers and the units a refreshInterval of the model is written with.
DecimalValue == ("0" :> 0) @@ ("1" :> 1) @@ ("2" :> 2) @@ ("59" :> 59)
                    @@ ("60" :> 60) @@ ("61" :> 61)

unitMap == ("s" :> 1) @@ ("m" :> Minute) @@ ("h" :> 60 * Minute)

\* time.ParseDuration on a text of at most one number and one unit: an
\* optional sign, then "0" alone or a number with its unit.
ParseDuration(text) ==
    LET signed == Len(text) > 0 /\ text[1] \in {"-", "+"}
        body == IF signed THEN Tail(text) ELSE text
        sign == IF signed /\ text[1] = "-" THEN -1 ELSE 1
    IN IF body = <<"0">> THEN [err |-> FALSE, d |-> 0]
       ELSE IF /\ Len(body) = 2
               /\ body[1] \in DOMAIN DecimalValue
               /\ body[2] \in DOMAIN unitMap
       THEN [err |-> FALSE, d |-> sign * DecimalValue[body[1]] * unitMap[body[2]]]
       ELSE [err |-> TRUE, d |-> 0]

parseRefreshInterval_NoMinimum(interval) ==
    IF interval = <<>> THEN defaultRefreshInterval
    ELSE IF ParseDuration(interval).err THEN defaultRefreshInterval
    ELSE ParseDuration(interval).d

\* parseRefreshInterval
parseRefreshInterval(interval) ==
    IF interval = <<>> THEN defaultRefreshInterval
    ELSE IF ParseDuration(interval).err THEN defaultRefreshInterval
    ELSE IF ParseDuration(interval).d < Minute THEN Minute
    ELSE ParseDuration(interval).d

\* The refresh intervals of the model: none, texts that do not parse (no
\* unit, an unknown unit, no number), zero, a negative one, and durations
\* below, at and above one minute.
RefreshIntervals ==
    {<<>>, <<"60">>, <<"1", "d">>, <<"soon">>, <<"0">>, <<"-", "2", "h">>,
     <<"59", "s">>, <<"60", "s">>, <<"1", "m">>, <<"61", "s">>, <<"2", "h">>}

SecretSpec(key, template, namespace, policy, suspend, interval) ==
    [SecretKey |-> key, Template |-> template, TargetNamespace |-> namespace,
     CreationPolicy |-> policy, SuspendSync |-> suspend,
     RefreshInterval |-> interval]

SecretSpecs ==
    {SecretSpec("a", [NoTemplate EXCEPT !.has = TRUE,
                         !.StringData = "out" :> Placeholder("a")],
                "", "", FALSE, <<>>),
     SecretSpec("", [NoTemplate EXCEPT !.has = TRUE,
                        !.Data = "out" :> (<<"v=">> \o Placeholder("a"))],
                "other", "Owner", FALSE, <<"59", "s">>),
     SecretSpec("b", NoTemplate, "", "Orphan", FALSE, <<"2", "h">>),
     SecretSpec("", NoTemplate, "", "", TRUE, <<"soon">>)}

\* One spec per refresh interval: every field of the content, no template.
RefreshSpecs ==
    {SecretSpec("", NoTemplate, "", "", FALSE, interval) :
        interval \in RefreshIntervals}

\* The conditions of a BaoSecret's status, by type.
ConditionTypes == {"Synced", "Ready"}

NoCondition == [Status |-> "", Reason |-> "", Message |-> ""]

setCondition_KeepsReason(status, condType, st, reason, message) ==
    [status EXCEPT !.Conditions[condType] =
        [Status |-> st, Reason |-> @.Reason, Message |-> message]]

\* setCondition: the condition of the type is overwritten, or appended when
\* there is none (the transition time is left out).
setCondition(status, condType, st, reason, message) ==
    [status EXCEPT !.Conditions[condType] =
        [Status |-> st, Reason |-> reason, Message |-> message]]

\* What the KV engine may hold at the path: field a alone, field a with
\* another value, a value that names field b, a value that names itself.
SecretContents ==
    {"a" :> <<"1">>,
     "a" :> <<"2">>,
     ("a" :> Placeholder("b")) @@ ("b" :> <<"B">>),
     "a" :> (<<"x">> \o Placeholder("a"))}

NewBaoSecret(spec) ==
    [exists |-> TRUE, deleting |-> FALSE, finalizer |-> FALSE, Name |-> "sec",
     Generation |-> 1, Spec |-> spec,
     Status |-> [SecretVersion |-> <<>>, SyncedSecretNamespace |-> "",
                 Conditions |-> [c \in ConditionTypes |-> NoCondition],
                 LastSyncTime |-> FALSE, ObservedGeneration |-> 0]]

NoBaoSecret ==
    [NewBaoSecret(SecretSpec("", NoTemplate, "", "", FALSE, <<>>))
        EXCEPT !.exists = FALSE]

\* A target Secret that does not exist.
NoTarget ==
    [exists |-> FALSE, Data |-> EmptyMap, owner |-> FALSE, controller |-> "",
     managedBy |-> "", version |-> <<>>]

NoSecretSync ==
    [has |-> FALSE, Spec |-> NoBaoSecret.Spec, content |-> EmptyMap,
     Data |-> EmptyMap, version |-> <<>>]

\* What a reconcile did: its result and the delay of the requeue it asked
\* for (seconds), whether it was the deletion reconcile and removed the
\* finalizer (and then the namespaces whose target existed at that time),
\* the creation policy it saw, whether it found the sync
\* suspended, the error syncSecret returned, its backend reads and writes,
\* whether it wrote the target and stamped lastSyncTime, whether it
\* repeated the latest successful sync (same spec, same backend content)
\* and whether its data and its version are that sync's.
NoSecretReconcile ==
    [ran |-> FALSE, result |-> "", RequeueAfter |-> 0, deletion |-> FALSE,
     removed |-> FALSE, CreationPolicy |-> "", suspended |-> FALSE,
     syncErr |-> "", reads |-> 0, writes |-> 0, wroteTarget |-> FALSE,
     stamped |-> FALSE, repeat |-> FALSE, sameData |-> FALSE,
     sameVersion |-> FALSE, targets |-> {}]

\* syncSecret: the outcomes the map iteration allows.  readOK and targetOK
\* are the outcomes of the KV read and of CreateOrUpdate; the owner
\* reference is set only for a target in the BaoSecret's own namespace, and
\* SetControllerReference refuses a target another resource controls.
syncSecret(secret, readOK, targetOK) ==
    LET spec == secret.Spec
        sourceData == secBackend
        selected == IF spec.SecretKey # ""
                    THEN spec.SecretKey :> sourceData[spec.SecretKey]
                    ELSE sourceData
        targetNamespace == IF spec.TargetNamespace = "" THEN SecretNamespace
                           ELSE spec.TargetNamespace
        found == secTarget[targetNamespace]
        owned == /\ spec.CreationPolicy \in {"Owner", ""}
                 /\ targetNamespace = SecretNamespace
        taken == owned /\ found.controller \notin {"", secret.Name}
        out(kind, reads, data, target) ==
            [kind |-> IF kind \in {"ok", "hang"} THEN kind ELSE "err",
             err |-> IF kind \in {"ok", "hang"} THEN "" ELSE kind,
             reads |-> reads, Data |-> data,
             version |-> calculateVersion(data),
             namespace |-> targetNamespace, target |-> target]
    IN IF ~secClient THEN {out("OpenBao client not configured", 0, EmptyMap, found)}
       ELSE IF ~readOK
       THEN {out("failed to read secret from OpenBao", 1, EmptyMap, found)}
       ELSE IF spec.SecretKey # "" /\ spec.SecretKey \notin DOMAIN sourceData
       THEN {out("key not found in secret", 1, EmptyMap, found)}
       ELSE {IF ~applied.returns THEN out("hang", 1, EmptyMap, found)
             ELSE IF ~targetOK \/ taken
             THEN out("failed to create/update secret", 1, EmptyMap, found)
             ELSE out("ok", 1, applied.data,
                      [exists |-> TRUE, Data |-> applied.data,
                       owner |-> owned \/ found.owner,
                       controller |-> IF owned THEN secret.Name
                                      ELSE found.controller,
                       managedBy |-> secret.Name,
                       version |-> calculateVersion(applied.data)])
             : applied \in IF spec.Template.has
                           THEN applyTemplate(selected, spec.Template, sourceData)
                           ELSE {[returns |-> TRUE, data |-> selected]}}

\* BaoSecretReconciler.Reconcile: handleDeletion, the finalizer, the
\* suspension, syncSecret, the status update, the requeue.  updateOK and
\* statusOK are the outcomes of r.Update and of r.Status().Update.  A
\* reconcile that does not return keeps the controller's one worker.
SecretReconcileWith(updateOK, readOK, targetOK, statusOK) ==
    /\ baoSecret.exists
    /\ secLast.result # "hang"
    /\ LET held == addFinalizer(baoSecret, updateOK).resource
           start == [NoSecretReconcile EXCEPT !.ran = TRUE,
                        !.CreationPolicy = baoSecret.Spec.CreationPolicy,
                        !.repeat = /\ secSynced.has
                                   /\ secSynced.Spec = baoSecret.Spec
                                   /\ secSynced.content = secBackend]
       IN \E sync \in syncSecret(held, readOK, targetOK) :
          LET ran == [start EXCEPT !.reads = sync.reads]
          IN IF baoSecret.deleting
             THEN /\ baoSecret' = IF baoSecret.finalizer /\ updateOK
                                  THEN NoBaoSecret ELSE baoSecret
                  /\ secLast' = [start EXCEPT !.deletion = TRUE,
                                    !.removed = baoSecret.finalizer /\ updateOK,
                                    !.targets =
                                        IF baoSecret.finalizer /\ updateOK
                                        THEN {n \in Namespaces :
                                                secTarget[n].exists}
                                        ELSE {},
                                    !.result = IF baoSecret.finalizer /\ ~updateOK
                                               THEN "error" ELSE ""]
                  /\ UNCHANGED <<secTarget, secSynced>>
             ELSE IF addFinalizer(baoSecret, updateOK).err
             THEN /\ secLast' = [start EXCEPT !.result = "error"]
                  /\ UNCHANGED <<baoSecret, secTarget, secSynced>>
             ELSE IF baoSecret.Spec.SuspendSync
             THEN /\ baoSecret' =
                        IF statusOK
                        THEN [held EXCEPT !.Status =
                                setCondition(@, "Ready", "False",
                                    "SyncSuspended", "Sync is suspended")]
                        ELSE held
                  /\ secLast' = [start EXCEPT !.suspended = TRUE,
                                    !.result = IF statusOK THEN "" ELSE "error"]
                  /\ UNCHANGED <<secTarget, secSynced>>
             ELSE IF sync.kind = "hang"
             THEN /\ baoSecret' = held
                  /\ secLast' = [ran EXCEPT !.result = "hang"]
                  /\ UNCHANGED <<secTarget, secSynced>>
             ELSE IF sync.kind = "err"
             THEN /\ baoSecret' =
                        IF statusOK
                        THEN [held EXCEPT !.Status =
                                setCondition(
                                    setCondition(@, "Synced", "False",
                                        "Failed", sync.err),
                                    "Ready", "False", "Failed",
                                    "Failed to sync secret")]
                        ELSE held
                  /\ secLast' = [ran EXCEPT !.syncErr = sync.err,
                                    !.result = IF statusOK
                                               THEN "requeue30s" ELSE "error",
                                    !.RequeueAfter = IF statusOK
                                                     THEN RetryDelay ELSE 0]
                  /\ UNCHANGED <<secTarget, secSynced>>
             ELSE /\ secTarget' = [secTarget EXCEPT ![sync.namespace] = sync.target]
                  /\ baoSecret' =
                        IF statusOK
                        THEN [held EXCEPT !.Status =
                                setCondition(
                                    setCondition(
                                        [@ EXCEPT
                                            !.SecretVersion = sync.version,
                                            !.SyncedSecretNamespace = sync.namespace,
                                            !.ObservedGeneration = held.Generation,
                                            !.LastSyncTime = TRUE],
                                        "Synced", "True", "Success",
                                        "Secret synced successfully"),
                                    "Ready", "True", "Success",
                                    "Secret is ready")]
                        ELSE held
                  /\ secLast' = [ran EXCEPT
                                    !.wroteTarget = TRUE,
                                    !.stamped = statusOK,
                                    !.sameData = sync.Data = secSynced.Data,
                                    !.sameVersion = sync.version = secSynced.version,
                                    !.result = IF statusOK THEN "requeueRefresh"
                                               ELSE "error",
                                    !.RequeueAfter =
                                        IF statusOK
                                        THEN parseRefreshInterval(
                                                 baoSecret.Spec.RefreshInterval)
                                        ELSE 0]
                  /\ secSynced' =
                        IF statusOK
                        THEN [has |-> TRUE, Spec |-> baoSecret.Spec,
                              content |-> secBackend, Data |-> sync.Data,
                              version |-> sync.version]
                        ELSE secSynced
    /\ UNCHANGED <<secBackend, secClient, peerSecret>>

\* A reconcile, whatever the API server and the backend answer.
SecretReconcile ==
    /\ \E updateOK \in BOOLEAN, readOK \in BOOLEAN, targetOK \in BOOLEAN,
          statusOK \in BOOLEAN :
            SecretReconcileWith(updateOK, readOK, targetOK, statusOK)
    /\ UNCHANGED notSecret

\* A reconcile with the API server and the backend reachable.
SecretReconcileReachable ==
    /\ SecretReconcileWith(TRUE, TRUE, TRUE, TRUE)
    /\ UNCHANGED notSecret

\* A user edits the spec.
SecretEdit ==
    /\ baoSecret.exists /\ ~baoSecret.deleting
    /\ baoSecret.Generation < MaxGeneration
    /\ \E spec \in SecretSpecs \ {baoSecret.Spec} :
         baoSecret' = [baoSecret EXCEPT !.Generation = @ + 1, !.Spec = spec]
    /\ UNCHANGED <<secBackend, secTarget, secClient, secLast, secSynced,
                   peerSecret>>
    /\ UNCHANGED notSecret

\* A user sets or clears spec.suspendSync.
SecretSuspend ==
    /\ baoSecret.exists /\ ~baoSecret.deleting
    /\ baoSecret.Generation < MaxGeneration
    /\ baoSecret' = [baoSecret EXCEPT !.Generation = @ + 1,
                                      !.Spec.SuspendSync = ~@]
    /\ UNCHANGED <<secBackend, secTarget, secClient, secLast, secSynced,
                   peerSecret>>
    /\ UNCHANGED notSecret

\* A user deletes the resource.
SecretDelete ==
    /\ baoSecret.exists /\ ~baoSecret.deleting
    /\ baoSecret' = IF baoSecret.finalizer
                    THEN [baoSecret EXCEPT !.deleting = TRUE]
                    ELSE NoBaoSecret
    /\ UNCHANGED <<secBackend, secTarget, secClient, secLast, secSynced,
                   peerSecret>>
    /\ UNCHANGED notSecret

\* The content at the path changes in the backend.
SecretBackendChange ==
    /\ secBackend' \in SecretContents \ {secBackend}
    /\ UNCHANGED <<baoSecret, secTarget, secClient, secLast, secSynced,
                   peerSecret>>
    /\ UNCHANGED notSecret

\* Cascade cleanup: once the BaoSecret is gone, the targets that carry its
\* owner reference are removed.
GarbageCollect ==
    /\ ~baoSecret.exists
    /\ \E n \in Namespaces :
         /\ secTarget[n].exists /\ secTarget[n].owner
         /\ secTarget' = [secTarget EXCEPT ![n] = NoTarget]
    /\ UNCHANGED <<baoSecret, secBackend, secClient, secLast, secSynced,
                   peerSecret>>
    /\ UNCHANGED notSecret

\* The work queue hands the worker the key of the other BaoSecret: Reconcile
\* fetches that resource, and the sync history is the one of the resource
\* at hand.
SecretDequeueOther ==
    /\ baoSecret.exists /\ peerSecret.exists
    /\ secLast.result # "hang"
    /\ baoSecret' = peerSecret
    /\ peerSecret' = baoSecret
    /\ secSynced' = NoSecretSync
    /\ UNCHANGED <<secBackend, secTarget, secClient, secLast>>
    /\ UNCHANGED notSecret

NoTargets == [n \in Namespaces |-> NoTarget]

SecretInit ==
    /\ baoSecret \in {NewBaoSecret(spec) : spec \in SecretSpecs}
    /\ secBackend \in SecretContents
    /\ secTarget = NoTargets
    /\ secClient \in BOOLEAN
    /\ secLast = NoSecretReconcile
    /\ secSynced = NoSecretSync
    /\ peerSecret = NoBaoSecret

SecretNext ==
    \/ SecretReconcile
    \/ SecretEdit
    \/ SecretDelete
    \/ SecretBackendChange
    \/ GarbageCollect

\* The steps of a BaoSecret that is neither edited nor deleted, with the
\* API server and the backend reachable.
SecretFairNext == SecretReconcileReachable \/ SecretBackendChange

\* The steps of a BaoSecret that is neither edited nor deleted.
SecretRefreshNext == SecretReconcile \/ SecretBackendChange

\* The steps of a BaoSecret that is neither edited nor deleted, whose
\* reconciles meet failures of the API server and of the backend.
SecretRetryNext ==
    \/ SecretReconcile
    \/ SecretReconcileReachable
    \/ SecretBackendChange

\* The steps of two BaoSecrets that share a target: the one worker takes
\* them in any order, one reconcile at a time.
SecretSharedNext ==
    \/ SecretReconcile
    \/ SecretDequeueOther

\* The steps of a BaoSecret whose target was there before it.
SecretMergeNext == SecretReconcile \/ SecretBackendChange

\* The reconciles of the two controllers side by side.
ControllersNext == PolicyReconcile \/ SecretReconcile

\* The steps of a BaoSecret whose sync is suspended and resumed.
SecretSuspendNext == SecretReconcile \/ SecretSuspend \/ SecretBackendChange

(***************************************************************************)
(* Run of the KMS plugin and of the CSI provider                           *)
(***************************************************************************)

Servers == {"kms", "csi"}

\* The most RPCs a server handles at a time.
MaxInflight == 2

\* Run has set up the listener and the grpc.Server and has started its
\* goroutines; Serve has not registered the listener yet.
NewRun ==
    [phase |-> "starting", serve |-> "", stopCalled |-> FALSE, inflight |-> 0,
     result |-> "", acceptedAfterStop |-> FALSE, inflightAtReturn |-> 0]

\* The process context is cancelled (main cancels it on SIGINT / SIGTERM).
Cancel ==
    /\ ~ctxDone
    /\ ctxDone' = TRUE
    /\ UNCHANGED <<grpcServer, hcLoop>>
    /\ UNCHANGED notRun

\* What Run returns once Serve has returned ErrServerStopped.  Server.Run
\* calls Serve itself and wraps its error; Provider.Run calls it in a
\* goroutine and, having taken the ctx.Done case, does not read errChan.
ServeStopped_Ignored(s, run) ==
    [run EXCEPT !.serve = "ErrServerStopped"]

ServeStopped(s, run) ==
    IF s = "kms"
    THEN [run EXCEPT !.serve = "ErrServerStopped", !.phase = "returned",
                     !.result = "error", !.inflightAtReturn = run.inflight]
    ELSE [run EXCEPT !.serve = "ErrServerStopped"]

\* grpc.Server.Serve is entered: it registers the listener and accepts,
\* or returns ErrServerStopped when GracefulStop was called before it.
Serve ==
    \E s \in Servers :
        /\ grpcServer[s].serve = ""
        /\ grpcServer' =
              [grpcServer EXCEPT ![s] =
                 IF grpcServer[s].stopCalled THEN ServeStopped(s, @)
                 ELSE [@ EXCEPT !.serve = "serving", !.phase = "serving"]]
        /\ UNCHANGED <<ctxDone, hcLoop>>
        /\ UNCHANGED notRun

\* A client's RPC is accepted.
AcceptRPC ==
    \E s \in Servers :
        /\ grpcServer[s].phase = "serving"
        /\ grpcServer[s].inflight < MaxInflight
        /\ grpcServer' = [grpcServer EXCEPT ![s].inflight = @ + 1,
                              ![s].acceptedAfterStop = grpcServer[s].stopCalled]
        /\ UNCHANGED <<ctxDone, hcLoop>>
        /\ UNCHANGED notRun

\* An RPC's handler returns.
CompleteRPC ==
    \E s \in Servers :
        /\ grpcServer[s].inflight > 0
        /\ grpcServer' = [grpcServer EXCEPT ![s].inflight = @ - 1]
        /\ UNCHANGED <<ctxDone, hcLoop>>
        /\ UNCHANGED notRun

\* GracefulStop is called once ctx.Done is observed (by the shutdown
\* goroutine of Server.Run, by the select of Provider.Run): the listener
\* is closed and no RPC is accepted any more.  Before Serve there is no
\* listener and no connection: GracefulStop returns at once, and
\* Provider.Run returns nil after it.
GracefulStop ==
    \E s \in Servers :
        /\ ctxDone /\ ~grpcServer[s].stopCalled
        /\ grpcServer[s].phase \in {"starting", "serving"}
        /\ grpcServer' =
              [grpcServer EXCEPT ![s] =
                 IF @.phase = "serving"
                 THEN [@ EXCEPT !.stopCalled = TRUE, !.phase = "draining"]
                 ELSE IF s = "csi"
                 THEN [@ EXCEPT !.stopCalled = TRUE, !.phase = "returned",
                                !.result = "nil"]
                 ELSE [@ EXCEPT !.stopCalled = TRUE]]
        /\ UNCHANGED <<ctxDone, hcLoop>>
        /\ UNCHANGED notRun

\* The last in-flight RPC is done: GracefulStop returns, Serve returns nil
\* and Run returns nil.
Drained ==
    \E s \in Servers :
        /\ grpcServer[s].phase = "draining"
        /\ grpcServer[s].inflight = 0
        /\ grpcServer' = [grpcServer EXCEPT ![s].phase = "returned",
                              ![s].result = "nil", ![s].inflightAtReturn = 0]
        /\ UNCHANGED <<ctxDone, hcLoop>>
        /\ UNCHANGED notRun

NewLoop == [at |-> "select", checks |-> 0]

\* healthCheckLoop: the ticker fires and the select takes that case (it
\* may, even when ctx.Done is ready as well).
LoopTick ==
    /\ hcLoop.at = "select"
    /\ hcLoop' = [hcLoop EXCEPT !.at = "check"]
    /\ UNCHANGED <<ctxDone, grpcServer>>
    /\ UNCHANGED notRun

\* performHealthCheck returns.
LoopCheckDone ==
    /\ hcLoop.at = "check"
    /\ hcLoop' = [hcLoop EXCEPT !.at = "select", !.checks = 1]
    /\ UNCHANGED <<ctxDone, grpcServer>>
    /\ UNCHANGED notRun

\* healthCheckLoop: the select takes ctx.Done and the loop returns.
LoopObserveCancel ==
    /\ ctxDone /\ hcLoop.at = "select"
    /\ hcLoop' = [hcLoop EXCEPT !.at = "returned"]
    /\ UNCHANGED <<ctxDone, grpcServer>>
    /\ UNCHANGED notRun

RunInit ==
    /\ ctxDone = FALSE
    /\ grpcServer = [s \in Servers |-> NewRun]
    /\ hcLoop = NewLoop

RunNext ==
    \/ Cancel
    \/ Serve
    \/ AcceptRPC
    \/ CompleteRPC
    \/ GracefulStop
    \/ Drained
    \/ LoopTick
    \/ LoopCheckDone
    \/ LoopObserveCancel

(***************************************************************************)
(* The pure functions                                                      *)
(***************************************************************************)

NoApplication == [fn |-> None]

\* openbao.Config as Validate reads it, and the two environment variables.
NoKubernetesAuth == [set |-> FALSE, Role |-> ""]

Configs ==
    [Address : {"", "http://127.0.0.1:8200", "https://bao:8200"},
     Token : {"", "test-token", "s.root"},
     KubernetesAuth : {NoKubernetesAuth, [set |-> TRUE, Role |-> ""],
                       [set |-> TRUE, Role |-> "test-role"]}]

Environments == [OPENBAO_TOKEN : {"", "t1"}, VAULT_TOKEN : {"", "t2"}]

Validate_TokenCoversRole(c, env) ==
    IF c.Address = "" THEN "address is required"
    ELSE IF /\ c.Token = "" /\ ~c.KubernetesAuth.set
            /\ env.OPENBAO_TOKEN = "" /\ env.VAULT_TOKEN = ""
    THEN "no authentication method configured: set token or kubernetes auth"
    ELSE IF c.Token = "" /\ c.KubernetesAuth.set /\ c.KubernetesAuth.Role = ""
    THEN "kubernetes auth role is required"
    ELSE ""

\* Config.Validate: the error's text, "" for nil.
Validate(c, env) ==
    IF c.Address = "" THEN "address is required"
    ELSE IF /\ c.Token = "" /\ ~c.KubernetesAuth.set
            /\ env.OPENBAO_TOKEN = "" /\ env.VAULT_TOKEN = ""
    THEN "no authentication method configured: set token or kubernetes auth"
    ELSE IF c.KubernetesAuth.set /\ c.KubernetesAuth.Role = ""
    THEN "kubernetes auth role is required"
    ELSE ""

ValidateConfig ==
    /\ \E c \in Configs, env \in Environments :
         lastApplied' = [fn |-> "Validate", config |-> c, env |-> env,
                         err |-> Validate(c, env)]
    /\ UNCHANGED notLib

\* One readFromOpenBao: a SecretObject and an answer of the backend to the
\* request the object calls for, a write when it carries arguments and a
\* read otherwise.
ReadFromOpenBao ==
    /\ \E obj \in SecretObjects :
         \E resp \in IF Len(obj.SecretArgs) > 0 THEN WriteResponses
                     ELSE ReadResponses :
           lastApplied' = [fn |-> "readFromOpenBao", obj |-> obj,
                           resp |-> resp, out |-> readFromOpenBao(obj, resp)]
    /\ UNCHANGED notLib

\* The longest permission string of the model.
MaxPermLen == 3

PermissionChars == {"0", "6", "4", "8", "x", "-", "_", " "}

RECURSIVE StringsUpTo(_, _)
StringsUpTo(chars, n) ==
    IF n = 0 THEN {<<>>}
    ELSE LET shorter == StringsUpTo(chars, n - 1)
         IN shorter \cup {<<c>> \o str : c \in chars,
                              str \in {x \in shorter : Len(x) = n - 1}}

ParsePermission ==
    /\ \E perm \in StringsUpTo(PermissionChars, MaxPermLen) :
         lastApplied' = [fn |-> "parseFilePermission", perm |-> perm,
                         mode |-> parseFilePermission(perm)]
    /\ UNCHANGED notLib

\* The templates applyTemplate is applied to: those of the BaoSecret specs,
\* and one that names a field twice next to a field no content has.
Templates ==
    {spec.Template : spec \in {sp \in SecretSpecs : sp.Template.has}}
    \cup {[NoTemplate EXCEPT !.has = TRUE,
               !.StringData = "out" :> (Placeholder("a") \o <<"-">>
                                 \o Placeholder("zz") \o Placeholder("a"))]}

\* Two runs of applyTemplate on the same template and the same source
\* data, each with the iteration orders its run happens to get.
ApplyTemplate ==
    /\ \E template \in Templates, sourceData \in SecretContents :
         \E first \in applyTemplate(sourceData, template, sourceData),
            second \in applyTemplate(sourceData, template, sourceData) :
           lastApplied' = [fn |-> "applyTemplate", template |-> template,
                           sourceData |-> sourceData,
                           out |-> first, again |-> second]
    /\ UNCHANGED notLib

LibInit == lastApplied = NoApplication

LibNext ==
    \/ ValidateConfig
    \/ ReadFromOpenBao
    \/ ParsePermission
    \/ ApplyTemplate

(***************************************************************************)
(* The read/write locks of the plugin, of the cache and of a session       *)
(***************************************************************************)

\* The processes and, in each, the locks its goroutines share: Server.mu
\* of the KMS plugin, secretsCache.mu and AuthenticatedClient.mu of the CSI
\* provider, Client.mu of a process that holds an openbao.Client.
Processes == {"kms", "csi", "client"}

Locks == {"Server.mu", "secretsCache.mu", "AuthenticatedClient.mu", "Client.mu"}

\* The lock that guards a field.
GuardOf(field) ==
    CASE field \in {"keyID", "healthy"} -> "Server.mu"
      [] field = "entries" -> "secretsCache.mu"
      [] field = "AuthenticatedClient.tokenExpiry" -> "AuthenticatedClient.mu"
      [] field = "Client.tokenExpiry" -> "Client.mu"

\* The steps of each function that touch a lock, a guarded field or the
\* backend, in program order.  "Call" is a backend network call, "Read" and
\* "Write" an access to a guarded field.
RoutineTable ==
    [initialize |->
        <<<<"Call", "GetKeyInfo">>, <<"Call", "CreateKey">>,
          <<"Call", "GetKeyInfo">>, <<"Lock", "Server.mu">>,
          <<"Write", "keyID">>, <<"Write", "healthy">>,
          <<"Unlock", "Server.mu">>, <<"Read", "keyID">>>>,
     Status |->
        <<<<"RLock", "Server.mu">>, <<"Read", "healthy">>,
          <<"Read", "keyID">>, <<"RUnlock", "Server.mu">>>>,
     Encrypt |->
        <<<<"Call", "Encrypt">>, <<"RLock", "Server.mu">>,
          <<"Read", "keyID">>, <<"RUnlock", "Server.mu">>>>,
     Decrypt |-> <<<<"Call", "Decrypt">>>>,
     performHealthCheck |->
        <<<<"Call", "GetKeyInfo">>, <<"Lock", "Server.mu">>,
          <<"Read", "keyID">>, <<"Write", "keyID">>, <<"Write", "healthy">>,
          <<"Unlock", "Server.mu">>>>,
     performHealthCheckFailed |->
        <<<<"Call", "GetKeyInfo">>, <<"Lock", "Server.mu">>,
          <<"Write", "healthy">>, <<"Unlock", "Server.mu">>>>,
     authenticate |->
        <<<<"Call", "Login">>, <<"Lock", "AuthenticatedClient.mu">>,
          <<"Write", "AuthenticatedClient.tokenExpiry">>,
          <<"Unlock", "AuthenticatedClient.mu">>>>,
     fetchSecretHit |->
        <<<<"RLock", "secretsCache.mu">>, <<"Read", "entries">>,
          <<"RUnlock", "secretsCache.mu">>>>,
     fetchSecret |->
        <<<<"RLock", "secretsCache.mu">>, <<"Read", "entries">>,
          <<"RUnlock", "secretsCache.mu">>,
          <<"RLock", "AuthenticatedClient.mu">>,
          <<"Read", "AuthenticatedClient.tokenExpiry">>,
          <<"RUnlock", "AuthenticatedClient.mu">>,
          <<"Call", "RenewSelf">>, <<"Lock", "AuthenticatedClient.mu">>,
          <<"Write", "AuthenticatedClient.tokenExpiry">>,
          <<"Unlock", "AuthenticatedClient.mu">>,
          <<"Call", "Read">>, <<"Lock", "secretsCache.mu">>,
          <<"Write", "entries">>, <<"Unlock", "secretsCache.mu">>>>,
     authenticateKubernetes |->
        <<<<"Call", "Login">>, <<"Lock", "Client.mu">>,
          <<"Write", "Client.tokenExpiry">>, <<"Unlock", "Client.mu">>>>,
     RefreshToken |->
        <<<<"RLock", "Client.mu">>, <<"Read", "Client.tokenExpiry">>,
          <<"RUnlock", "Client.mu">>, <<"Call", "RenewSelf">>,
          <<"Lock", "Client.mu">>, <<"Write", "Client.tokenExpiry">>,
          <<"Unlock", "Client.mu">>>>,
     RefreshTokenLogin |->
        <<<<"RLock", "Client.mu">>, <<"Read", "Client.tokenExpiry">>,
          <<"RUnlock", "Client.mu">>, <<"Call", "RenewSelf">>,
          <<"Call", "Login">>, <<"Lock", "Client.mu">>,
          <<"Write", "Client.tokenExpiry">>, <<"Unlock", "Client.mu">>>>]

\* A variant of Routine in which performHealthCheck takes the lock first
\* and fetches the key information while it holds it.
Routine_LockBeforeCall(name) ==
    IF name = "performHealthCheck"
    THEN <<<<"Lock", "Server.mu">>, <<"Call", "GetKeyInfo">>,
           <<"Read", "keyID">>, <<"Write", "keyID">>, <<"Write", "healthy">>,
           <<"Unlock", "Server.mu">>>>
    ELSE RoutineTable[name]

Routine(name) == RoutineTable[name]

\* What runs while the process is built (NewServer, NewAuthenticatedClient,
\* NewClient), before any other goroutine has the object.
Constructor(proc) ==
    CASE proc = "kms" -> "initialize"
      [] proc = "csi" -> "authenticate"
      [] proc = "client" -> "authenticateKubernetes"

\* What the RPC handlers and the health-check loop run side by side.
Concurrent(proc) ==
    CASE proc = "kms" -> {"Status", "Encrypt", "Decrypt", "performHealthCheck",
                          "performHealthCheckFailed"}
      [] proc = "csi" -> {"fetchSecretHit", "fetchSecret"}
      [] proc = "client" -> {"RefreshToken", "RefreshTokenLogin"}

Goroutines == {"g1", "g2"}

Free == [writer |-> None, readers |-> {}]

Parked == [routine |-> None, pc |-> 0]

\* The locks goroutine g holds, each with its mode.
HeldBy(g) ==
    {<<l, "W">> : l \in {k \in Locks : mu[k].writer = g}}
    \cup {<<l, "R">> : l \in {k \in Locks : g \in mu[k].readers}}

NoStep == [g |-> None, routine |-> None, op |-> None, arg |-> None,
           locks |-> {}, shared |-> FALSE]

\* A parked goroutine takes up one of the functions of the process.
StartRoutine ==
    /\ constructed
    /\ \E g \in Goroutines, name \in Concurrent(process) :
         /\ goroutines[g] = Parked
         /\ goroutines' = [goroutines EXCEPT ![g] = [routine |-> name, pc |-> 0]]
    /\ UNCHANGED <<process, constructed, mu, lastStep>>
    /\ UNCHANGED notLock

\* The next step of a goroutine.  sync.RWMutex: Lock waits until nobody
\* holds the lock, RLock until no writer does.
RoutineStep ==
    /\ \E g \in Goroutines :
         /\ goroutines[g] # Parked
         /\ LET name == goroutines[g].routine
                step == Routine(name)[goroutines[g].pc + 1]
                op == step[1]
                arg == step[2]
                last == goroutines[g].pc + 1 = Len(Routine(name))
            IN /\ op = "Lock" => mu[arg] = Free
               /\ op = "RLock" => mu[arg].writer = None
               /\ mu' = CASE op = "Lock" -> [mu EXCEPT ![arg].writer = g]
                          [] op = "RLock" ->
                                [mu EXCEPT ![arg].readers = @ \cup {g}]
                          [] op = "Unlock" ->
                                [mu EXCEPT ![arg].writer =
                                    IF @ = g THEN None ELSE @]
                          [] op = "RUnlock" ->
                                [mu EXCEPT ![arg].readers = @ \ {g}]
                          [] OTHER -> mu
               /\ goroutines' = [goroutines EXCEPT ![g] =
                                    IF last THEN Parked
                                    ELSE [@ EXCEPT !.pc = @ + 1]]
               /\ constructed' = (constructed \/ last)
               /\ lastStep' = [g |-> g, routine |-> name, op |-> op,
                               arg |-> arg, locks |-> HeldBy(g),
                               shared |-> constructed]
    /\ UNCHANGED process
    /\ UNCHANGED notLock

\* The constructor of one of the processes is about to run.
LockInit ==
    /\ process \in Processes
    /\ constructed = FALSE
    /\ goroutines = [g \in Goroutines |->
                        IF g = "g1"
                        THEN [routine |-> Constructor(process), pc |-> 0]
                        ELSE Parked]
    /\ mu = [l \in Locks |-> Free]
    /\ lastStep = NoStep

LockNext == StartRoutine \/ RoutineStep

(***************************************************************************)
(* Specifications: one per component, the others at rest                   *)
(***************************************************************************)

KMSIdle ==
    /\ keyID = EmptyStr
    /\ healthy = FALSE
    /\ kmsPhase = "new"
    /\ transitKey = [exists |-> FALSE, latest |-> 0]
    /\ hcPending = NoKeyInfo
    /\ encPending = NoEncrypt
    /\ kmsResp = NoResp
    /\ lastHC = NoHC
    /\ kmsFetched = {}

CSIIdle == CSIInit /\ DefaultRole = ""

PolicyIdle ==
    /\ baoPolicy = NoBaoPolicy
    /\ polBackend = NoDocuments
    /\ polClient = FALSE
    /\ polLast = NoPolicyReconcile
    /\ polSynced = NoSynced

SecretIdle ==
    /\ baoSecret = NoBaoSecret
    /\ secBackend = EmptyMap
    /\ secTarget = NoTargets
    /\ secClient = FALSE
    /\ secLast = NoSecretReconcile
    /\ secSynced = NoSecretSync
    /\ peerSecret = NoBaoSecret

RunIdle == RunInit

LibIdle == LibInit

LockIdle ==
    /\ process = None
    /\ constructed = FALSE
    /\ goroutines = [g \in Goroutines |-> Parked]
    /\ mu = [l \in Locks |-> Free]
    /\ lastStep = NoStep

ClientIdle ==
    /\ tokenExpiry = NoExpiry
    /\ clientNow = 0
    /\ lastCall = NoCall

InitKMS == KMSInit /\ CSIIdle /\ PolicyIdle /\ SecretIdle /\ ClientIdle /\ RunIdle /\ LibIdle /\ LockIdle

InitCSI == CSIInit /\ KMSIdle /\ PolicyIdle /\ SecretIdle /\ ClientIdle /\ RunIdle /\ LibIdle /\ LockIdle

InitPolicy == PolicyInit /\ KMSIdle /\ CSIIdle /\ SecretIdle /\ ClientIdle /\ RunIdle /\ LibIdle /\ LockIdle

InitSecret == SecretInit /\ KMSIdle /\ CSIIdle /\ PolicyIdle /\ ClientIdle /\ RunIdle /\ LibIdle /\ LockIdle

InitClient ==
    /\ ClientInit /\ KMSIdle /\ CSIIdle /\ PolicyIdle /\ SecretIdle
    /\ RunIdle /\ LibIdle /\ LockIdle

InitRun ==
    /\ RunInit /\ KMSIdle /\ CSIIdle /\ PolicyIdle /\ SecretIdle
    /\ ClientIdle /\ LibIdle /\ LockIdle

InitLib ==
    /\ LibInit /\ KMSIdle /\ CSIIdle /\ PolicyIdle /\ SecretIdle
    /\ ClientIdle /\ RunIdle /\ LockIdle

InitLock ==
    /\ LockInit /\ KMSIdle /\ CSIIdle /\ PolicyIdle /\ SecretIdle
    /\ ClientIdle /\ RunIdle /\ LibIdle

\* A BaoSecret that syncs: a client is configured, the sync is not
\* suspended, the selected field is one every content has.
InitSecretFair ==
    /\ InitSecret
    /\ secClient
    /\ ~baoSecret.Spec.SuspendSync
    /\ baoSecret.Spec.SecretKey \in {"", "a"}

\* A BaoSecret with any of the refresh intervals and a configured client.
InitSecretRefresh ==
    /\ baoSecret \in {NewBaoSecret(spec) : spec \in RefreshSpecs}
    /\ secBackend \in SecretContents
    /\ secTarget = NoTargets
    /\ secClient = TRUE
    /\ secLast = NoSecretReconcile
    /\ secSynced = NoSecretSync
    /\ peerSecret = NoBaoSecret
    /\ KMSIdle /\ CSIIdle /\ PolicyIdle /\ ClientIdle /\ RunIdle /\ LibIdle /\ LockIdle

\* A BaoSecret that is suspended, or one that will be.
InitSecretSuspend ==
    /\ InitSecret
    /\ secClient
    /\ baoSecret.Spec.Template = NoTemplate

\* One BaoPolicy and one BaoSecret, both new, both controllers with a
\* backend client.
InitControllers ==
    /\ PolicyInit /\ polClient /\ baoPolicy.Spec.PolicyName = ""
    /\ SecretInit /\ secClient /\ secBackend = ("a" :> <<"1">>)
    /\ KMSIdle /\ CSIIdle /\ ClientIdle /\ RunIdle /\ LibIdle /\ LockIdle

\* A BaoSecret with creation policy Merge, with or without a template,
\* whose target Secret exists already and holds a key of its own, alone or
\* beside a key the sync produces.
InitSecretMerge ==
    /\ baoSecret \in
         {NewBaoSecret(SecretSpec(key, template, "", "Merge", FALSE, <<>>)) :
            key \in {"", "a"},
            template \in {NoTemplate} \cup
                {spec.Template : spec \in {sp \in SecretSpecs : sp.Template.has}}}
    /\ secBackend \in SecretContents
    /\ secTarget \in
         {[NoTargets EXCEPT ![SecretNamespace] =
              [NoTarget EXCEPT !.exists = TRUE, !.Data = data]] :
            data \in {"keep" :> <<"old">>,
                      ("keep" :> <<"old">>) @@ ("a" :> <<"0">>)}}
    /\ secClient = TRUE
    /\ secLast = NoSecretReconcile
    /\ secSynced = NoSecretSync
    /\ peerSecret = NoBaoSecret
    /\ KMSIdle /\ CSIIdle /\ PolicyIdle /\ ClientIdle /\ RunIdle /\ LibIdle /\ LockIdle

\* Two BaoSecrets of one namespace that name the same target Secret, in
\* their own namespace or in another one, each with or without an owner
\* reference; one takes a field of the path, the other the whole content.
InitSecretShared ==
    /\ \E namespace \in {"", "other"}, policy \in {"", "Orphan"},
          peerPolicy \in {"", "Orphan"} :
         /\ baoSecret = NewBaoSecret(
                SecretSpec("a", NoTemplate, namespace, policy, FALSE, <<>>))
         /\ peerSecret = [NewBaoSecret(
                SecretSpec("", NoTemplate, namespace, peerPolicy, FALSE, <<>>))
                EXCEPT !.Name = "peer"]
    /\ secBackend \in SecretContents
    /\ secTarget = NoTargets
    /\ secClient = TRUE
    /\ secLast = NoSecretReconcile
    /\ secSynced = NoSecretSync
    /\ KMSIdle /\ CSIIdle /\ PolicyIdle /\ ClientIdle /\ RunIdle /\ LibIdle /\ LockIdle

\* A BaoPolicy whose controller has a backend client.
InitPolicyFair == InitPolicy /\ polClient

SpecKMS == InitKMS /\ [][KMSNext]_vars

SpecCSI == InitCSI /\ [][CSINext]_vars

SpecPolicy == InitPolicy /\ [][PolicyNext]_vars

SpecSecret == InitSecret /\ [][SecretNext]_vars

SpecClient == InitClient /\ [][ClientNext]_vars

SpecRun == InitRun /\ [][RunNext]_vars

SpecLib == InitLib /\ [][LibNext]_vars

SpecLock == InitLock /\ [][LockNext]_vars

SpecSecretRefresh == InitSecretRefresh /\ [][SecretRefreshNext]_vars

SpecSecretSuspend == InitSecretSuspend /\ [][SecretSuspendNext]_vars

SpecSecretMerge == InitSecretMerge /\ [][SecretMergeNext]_vars

SpecSecretShared == InitSecretShared /\ [][SecretSharedNext]_vars

SpecControllers == InitControllers /\ [][ControllersNext]_vars

\* The requeue after 5 minutes is delivered: a reconcile that can run does
\* run.
SpecPolicyFair ==
    InitPolicyFair /\ [][PolicyFairNext]_vars
        /\ WF_vars(PolicyReconcileReachable)

\* Requeues are delivered: a reconcile that can run does run.
SpecSecretFair ==
    InitSecretFair /\ [][SecretFairNext]_vars
        /\ WF_vars(SecretReconcileReachable)

\* Requeues are delivered and failures pass: a reconcile that finds the API
\* server and the backend reachable does run.
SpecSecretRetry ==
    InitSecretFair /\ [][SecretRetryNext]_vars
        /\ WF_vars(SecretReconcileReachable)

(***************************************************************************)
(* Properties of the KMS plugin                                            *)
(***************************************************************************)

C10_FailedCheckKeepsKeyID ==
    /\ (lastHC.done /\ ~lastHC.ok) => (~healthy /\ keyID = lastHC.before)
    /\ (lastHC.done /\ ~lastHC.ok /\ kmsResp.kind = "Status")
          => (kmsResp.Healthz = "unhealthy" /\ kmsResp.KeyId = lastHC.before)
    /\ \/ keyID = EmptyStr
       \/ \E v \in kmsFetched : keyID = FormatKeyID(KeyName, v)

\* C10 happens: a check failed while keyID was KeyName:v2 and Status then
\* answered.
C10_Witness ==
    /\ lastHC.done /\ ~lastHC.ok
    /\ lastHC.before = FormatKeyID(KeyName, 2)
    /\ kmsResp.kind = "Status"
    /\ kmsResp.Healthz = "unhealthy"

C12_CreateOnlyWhenAbsent ==
    (kmsResp.kind = "initialize" /\ kmsResp.creates > 0)
        => kmsResp.fetch = "absent"

\* C13 (empty payload): Encrypt with an empty plaintext and Decrypt with an
\* empty ciphertext return an error, issue no backend call and leave keyID
\* and healthy as they were.
C13_EmptyPayloadRejected ==
    [][(kmsResp'.kind \in {"Encrypt", "Decrypt"} /\ kmsResp'.empty) =>
            /\ kmsResp'.err
            /\ kmsResp'.calls = 0
            /\ keyID' = keyID
            /\ healthy' = healthy
      ]_vars

\* A Decrypt with an empty ciphertext was answered by a healthy server.
C13_Witness ==
    /\ kmsResp.kind = "Decrypt" /\ kmsResp.empty /\ kmsResp.err
    /\ healthy /\ keyID # EmptyStr

(***************************************************************************)
(* Properties of the CSI provider                                          *)
(***************************************************************************)

\* C3 (cache correctness): a fetch of a key (path, field-key, object-name)
\* before the expiry of the entry that key's latest successful fetch stored
\* returns that fetch's secret and issues no backend request; the first
\* fetch of the key after that expiry issues a backend request and, when it
\* succeeds, stores an entry that expires CacheTTL after the insertion.
C3_CacheCorrectness ==
    \A i \in 1..Len(lastMount.log) :
        LET e == lastMount.log[i] IN
        /\ (e.pre.has /\ now < e.pre.exp) =>
              (e.kind = "hit" /\ e.secret = e.pre.secret /\ e.reqs = 0)
        /\ (e.pre.has /\ now > e.pre.exp /\ ~e.pre.tried) =>
              /\ e.reqs > 0
              /\ e.kind = "fetched" =>
                    (e.post.has /\ e.post.secret = e.secret
                     /\ e.post.exp = now + CacheTTL)

\* C27 (failed fetches and the cache): a fetch that ends with an error, at
\* whatever step, leaves the cache exactly as it was before the fetch; a
\* fetch cut short by a panic does so too.
C27_FailedFetchKeepsCache ==
    \A i \in 1..Len(lastMount.log) :
        lastMount.log[i].kind \in {"failed", "panic"} => lastMount.log[i].kept

\* A fetch failed while the cache held an expired entry of its key, and a
\* fetch of the same call succeeded and changed the cache.
C27_Witness ==
    /\ \E i \in 1..Len(lastMount.log) :
          /\ lastMount.log[i].kind = "failed"
          /\ lastMount.log[i].pre.has
          /\ lastMount.log[i].kept
    /\ \E i \in 1..Len(lastMount.log) :
          lastMount.log[i].kind = "fetched" /\ ~lastMount.log[i].kept

\* C5 (partial-failure mounting): a Mount in which some fetches succeed and
\* some fail returns a file and a version entry for every fetched secret,
\* and an error that names every object that failed.
C5_PartialFailureMount ==
    (lastMount.called /\ ~lastMount.panicked
        /\ Len(lastMount.secrets) > 0 /\ Len(lastMount.fetchErrors) > 0) =>
       /\ lastMount.returned
       /\ lastMount.files =
             [i \in 1..Len(lastMount.secrets) |-> File(lastMount.secrets[i])]
       /\ lastMount.versions =
             [i \in 1..Len(lastMount.secrets) |-> ObjectVersion(lastMount.secrets[i])]
       /\ (lastMount.rpcErr \/ lastMount.code # "")
       /\ lastMount.named = lastMount.fetchErrors

\* C8 (error taxonomy): every Mount call returns, with a nil Go error, and
\* reports a failure by the response's code: InvalidArgument when the
\* attributes or parameters are invalid, PermissionDenied when
\* authentication fails, Internal when a fetch fails, and no code exactly
\* when parsing, authentication and every fetch succeeded.
C8_MountErrorTaxonomy ==
    lastMount.called =>
       LET valid == /\ lastMount.params.parsed
                    /\ lastMount.params.RoleName # ""
                    /\ lastMount.params.nObjects > 0
           fetchFailed == Len(lastMount.fetchErrors) > 0 \/ lastMount.panicked
       IN /\ lastMount.returned
          /\ ~lastMount.rpcErr
          /\ ~valid => lastMount.code = "InvalidArgument"
          /\ (valid /\ ~lastMount.authOK) => lastMount.code = "PermissionDenied"
          /\ (lastMount.authOK /\ fetchFailed) => lastMount.code = "Internal"
          /\ lastMount.code = "" <=>
                (valid /\ lastMount.authOK /\ ~fetchFailed
                 /\ Len(lastMount.secrets) = lastMount.params.nObjects)

\* C9 (validation fails closed): a Mount whose parsed parameters lack a
\* non-empty role or a non-empty object list returns InvalidArgument,
\* issues no login, renewal, read or write, and leaves the cache as it was.
C9_MountValidationFailsClosed ==
    [][(lastMount'.called
          /\ ~(lastMount'.params.parsed /\ lastMount'.params.RoleName # ""
               /\ lastMount'.params.nObjects > 0)) =>
          /\ lastMount'.code = "InvalidArgument"
          /\ lastMount'.logins = 0 /\ lastMount'.renews = 0
          /\ lastMount'.reads = 0 /\ lastMount'.writes = 0
          /\ cache' = cache]_vars

\* C9 happens: with a secret in the cache, a Mount whose attributes name
\* the role "app" and an empty object list is answered InvalidArgument.
C9_Witness ==
    /\ lastMount.called
    /\ lastMount.code = "InvalidArgument"
    /\ lastMount.params = [parsed |-> TRUE, RoleName |-> "app", nObjects |-> 0]
    /\ cacheKey(SecretObjectA) \in DOMAIN cache

(***************************************************************************)
(* Properties of the BaoPolicy controller                                  *)
(***************************************************************************)

\* C1 (hash gating): a reconcile whose rule list is the rule list of the
\* latest reconcile that wrote its document and persisted
\* status.policyVersion issues no backend write call.
C1_PolicyHashGating ==
    (polLast.ran /\ polLast.synced.has /\ polLast.synced.Rules = polLast.Rules)
        => polLast.writes = 0

(***************************************************************************)
(* Properties of the BaoSecret controller                                  *)
(***************************************************************************)

\* C2 (idempotence): a successful reconcile that follows a successful one,
\* with the same spec and the same backend content, computes the same
\* target data and the same status.secretVersion, reads the secret once and
\* writes nothing to the backend.
C2_SecretSyncIdempotence ==
    (secLast.ran /\ secLast.result = "requeueRefresh" /\ secLast.repeat) =>
        /\ secLast.sameData
        /\ secLast.sameVersion
        /\ secLast.reads = 1
        /\ secLast.writes = 0

\* C6 (finalizer discipline): when the deletion reconcile of a BaoSecret
\* with creation policy Owner (or none) has removed the finalizer, every
\* existing target that the controller wrote, in whatever namespace, carries
\* the owner reference.
C6_FinalizerDiscipline ==
    (/\ secLast.deletion /\ secLast.removed
     /\ secLast.CreationPolicy \in {"Owner", ""}) =>
        \A n \in Namespaces :
            (secTarget[n].exists /\ secTarget[n].managedBy = "sec")
                => secTarget[n].owner

\* C7 (eventual propagation): once the backend content differs from the
\* content of the latest successful sync, a later reconcile succeeds on the
\* content then current: the target holds the data computed from it,
\* status.secretVersion is its hash and, unless that reconcile found the
\* content of the sync before it, differs from that sync's version, and
\* Ready is True.
C7_EventualPropagation ==
    (secSynced.has /\ secBackend # secSynced.content) ~>
        (/\ secSynced.content = secBackend
         /\ \E n \in Namespaces : /\ secTarget[n].exists
                                  /\ secTarget[n].Data = secSynced.Data
         /\ baoSecret.Status.SecretVersion = secSynced.version
         /\ secSynced.version = calculateVersion(secSynced.Data)
         /\ secLast.repeat \/ ~secLast.sameVersion
         /\ baoSecret.Status.Conditions["Ready"].Status = "True")

(***************************************************************************)
(* Properties of the backend clients                                       *)
(***************************************************************************)

\* C14: a call of RefreshToken issues no request when no expiry is recorded
\* or more than the threshold remains; otherwise it issues one renewal and,
\* only when the renewal fails, one re-authentication (at most one login
\* request); a successful renewal stores now + the renewed lease.
C14_RefreshTokenRequests ==
    [][clientNow' = clientNow =>
        LET c == lastCall'
            r == c.refresh
            fresh == \/ ~tokenExpiry.set
                     \/ tokenExpiry.at - clientNow > RefreshThreshold
        IN /\ c.before = tokenExpiry /\ c.t = clientNow
           /\ fresh => /\ r.renews = 0 /\ r.reauths = 0 /\ r.logins = 0
                       /\ ~r.err
                       /\ tokenExpiry' = tokenExpiry
           /\ ~fresh => /\ r.renews = 1
                        /\ r.reauths = (IF c.renewal.ok THEN 0 ELSE 1)
                        /\ r.logins <= r.reauths
                        /\ c.renewal.ok =>
                             /\ ~r.err
                             /\ tokenExpiry' =
                                  [set |-> TRUE,
                                   at |-> clientNow + c.renewal.lease]
                        /\ ~c.renewal.ok => r.err = ~c.reauth.ok
    ]_vars

\* A call exactly at the threshold renewed the lease and stored the new
\* expiry.
C14_Witness ==
    /\ lastCall.op = "RefreshToken"
    /\ lastCall.before.set
    /\ lastCall.before.at - lastCall.t = RefreshThreshold
    /\ lastCall.refresh.renews = 1
    /\ lastCall.renewal.ok /\ lastCall.renewal.lease > 0
    /\ clientNow = lastCall.t
    /\ tokenExpiry = [set |-> TRUE, at |-> lastCall.t + lastCall.renewal.lease]

\* C15: an operation whose token refresh failed (renewal and
\* re-authentication both failed) returns an error and sends no request;
\* no request is sent while the recorded expiry has passed.
C15_NoRequestAfterFailedRefresh ==
    lastCall.op \in ClientOperations =>
        /\ lastCall.refresh.err => (lastCall.err /\ lastCall.sent = 0)
        /\ lastCall.sent > 0 => ~lastCall.expired

(***************************************************************************)
(* Properties of the BaoSecret controller: conditions and requeues         *)
(***************************************************************************)

\* C16: after a reconcile whose sync failed (and whose status update went
\* through) the persisted conditions Synced and Ready are both False, both
\* carry the error text as message, and the requeue delay is 30 seconds.
C16_FailedSyncConditions ==
    (secLast.syncErr # "" /\ secLast.result # "error") =>
        /\ baoSecret.Status.Conditions["Synced"].Status = "False"
        /\ baoSecret.Status.Conditions["Synced"].Message = secLast.syncErr
        /\ baoSecret.Status.Conditions["Ready"].Status = "False"
        /\ baoSecret.Status.Conditions["Ready"].Message = secLast.syncErr
        /\ secLast.RequeueAfter = RetryDelay

\* C17: after a successful reconcile the requeue delay is one hour when
\* refreshInterval is empty or does not parse, one minute when it parses to
\* less than a minute, the parsed duration otherwise; never below a minute.
C17_RefreshRequeue ==
    secLast.result = "requeueRefresh" =>
        LET interval == baoSecret.Spec.RefreshInterval
            parsed == ParseDuration(interval)
        IN /\ (interval = <<>> \/ parsed.err) =>
                secLast.RequeueAfter = 60 * Minute
           /\ (interval # <<>> /\ ~parsed.err /\ parsed.d < Minute) =>
                secLast.RequeueAfter = Minute
           /\ (interval # <<>> /\ ~parsed.err /\ parsed.d >= Minute) =>
                secLast.RequeueAfter = parsed.d
           /\ secLast.RequeueAfter >= Minute

\* A successful reconcile of a resource with a negative interval asked for
\* one minute.
C17_Witness ==
    /\ secLast.result = "requeueRefresh"
    /\ baoSecret.Spec.RefreshInterval = <<"-", "2", "h">>
    /\ ParseDuration(baoSecret.Spec.RefreshInterval).d = 0 - 2 * 60 * Minute
    /\ secLast.RequeueAfter = Minute

\* C18: a reconcile of a suspended resource without deletion timestamp
\* reads and writes nothing in the backend, leaves the target, the stored
\* secretVersion and lastSyncTime as they are and, unless an API write
\* fails, persists Ready=False with reason SyncSuspended and asks for no
\* requeue.
C18_SuspendedReconcile ==
    [][(/\ baoSecret.exists /\ ~baoSecret.deleting
        /\ baoSecret.Spec.SuspendSync
        /\ SecretReconcile) =>
        /\ secLast'.ran /\ ~secLast'.deletion
        /\ secLast'.reads = 0 /\ secLast'.writes = 0
        /\ ~secLast'.wroteTarget /\ secTarget' = secTarget
        /\ ~secLast'.stamped
        /\ baoSecret'.Status.SecretVersion = baoSecret.Status.SecretVersion
        /\ baoSecret'.Status.LastSyncTime = baoSecret.Status.LastSyncTime
        /\ secLast'.result \in {"", "error"}
        /\ secLast'.RequeueAfter = 0
        /\ secLast'.result = "" =>
             /\ secLast'.suspended
             /\ baoSecret'.Status.Conditions["Ready"].Status = "False"
             /\ baoSecret'.Status.Conditions["Ready"].Reason = "SyncSuspended"
    ]_vars

\* A resource that was synced and then suspended has been reconciled: its
\* target and its version are still there, Ready is False.
C18_Witness ==
    /\ secLast.suspended /\ secLast.result = ""
    /\ baoSecret.exists /\ baoSecret.Spec.SuspendSync
    /\ baoSecret.Status.SecretVersion # <<>>
    /\ baoSecret.Status.LastSyncTime
    /\ secTarget[SecretNamespace].exists
    /\ baoSecret.Status.Conditions["Ready"].Reason = "SyncSuspended"
    /\ baoSecret.Status.Conditions["Synced"].Status = "True"

\* C19: in both controllers a reconcile of a resource without deletion
\* timestamp touches the backend or the target only with the finalizer
\* persisted; when persisting it fails the reconcile returns the error
\* and has touched neither.
C19_FinalizerFirst ==
    [][/\ (baoSecret.exists /\ ~baoSecret.deleting /\ SecretReconcile) =>
            /\ (\/ secLast'.reads + secLast'.writes > 0
                \/ secLast'.wroteTarget
                \/ secTarget' # secTarget) => baoSecret'.finalizer
            /\ ~baoSecret'.finalizer =>
                 /\ secLast'.result = "error"
                 /\ secLast'.reads = 0 /\ secLast'.writes = 0
                 /\ ~secLast'.wroteTarget /\ secTarget' = secTarget
                 /\ baoSecret' = baoSecret
       /\ (baoPolicy.exists /\ ~baoPolicy.deleting /\ PolicyReconcile) =>
            /\ (polLast'.writes > 0 \/ polBackend' # polBackend) =>
                 baoPolicy'.finalizer
            /\ ~baoPolicy'.finalizer =>
                 /\ polLast'.result = "error"
                 /\ polLast'.writes = 0 /\ polBackend' = polBackend
                 /\ baoPolicy' = baoPolicy
    ]_vars

\* The BaoSecret's finalizer could not be persisted and nothing was read or
\* written; the BaoPolicy has its finalizer and its document was written.
C19_Witness ==
    /\ baoSecret.exists /\ ~baoSecret.finalizer
    /\ secLast.ran /\ secLast.result = "error" /\ secLast.reads = 0
    /\ secTarget = NoTargets
    /\ baoPolicy.exists /\ baoPolicy.finalizer
    /\ polLast.ran /\ polLast.writes > 0

\* C20: a BaoSecret deleted while its creation policy is Orphan leaves its
\* target in place: every target that existed when the finalizer was
\* removed exists from then on, cascade cleanup included.
C20_OrphanTargetSurvives ==
    (/\ secLast.deletion /\ secLast.removed
     /\ secLast.CreationPolicy = "Orphan") =>
        \A n \in secLast.targets : secTarget[n].exists

(***************************************************************************)
(* Properties of the BaoPolicy controller: drift and deletion              *)
(***************************************************************************)

\* C21 (drift self-healing): whenever the backend document of a synced
\* BaoPolicy is not a rendering of its rules, the periodic reconciles
\* eventually make it one again.
C21_DriftSelfHealing ==
    (/\ baoPolicy.exists /\ baoPolicy.Status.AppliedPolicyName # ""
     /\ polBackend[GetPolicyName(baoPolicy)]
            \notin ToHCL(baoPolicy.Spec.Rules))
      ~> (polBackend[GetPolicyName(baoPolicy)]
            \in ToHCL(baoPolicy.Spec.Rules))

\* C22: the reconcile of a BaoPolicy that has a deletion timestamp and the
\* finalizer sends nothing to the backend and leaves its documents alone;
\* it removes the finalizer (the resource is gone) unless the update fails.
C22_PolicyDeletion ==
    [][(/\ baoPolicy.exists /\ baoPolicy.deleting /\ baoPolicy.finalizer
        /\ PolicyReconcile) =>
        /\ polLast'.ran /\ polLast'.deletion
        /\ polLast'.writes = 0
        /\ polBackend' = polBackend
        /\ polLast'.result \in {"", "error"}
        /\ polLast'.result = "" => ~baoPolicy'.exists
        /\ polLast'.result = "error" => baoPolicy' = baoPolicy
    ]_vars

\* The finalizer of a synced BaoPolicy was removed with a client
\* configured; its document is still in the backend.
C22_Witness ==
    /\ ~baoPolicy.exists
    /\ polLast.deletion /\ polLast.result = ""
    /\ polClient
    /\ \E n \in DOMAIN polBackend : polBackend[n] # <<>>

(***************************************************************************)
(* Properties of Run                                                       *)
(***************************************************************************)

\* C24: once the context is cancelled and Run has stopped its server, no
\* RPC is accepted any more; Run returns only with no RPC in flight and
\* returns nil; the health-check loop, having observed the cancellation,
\* starts no health check.
C24_GracefulRun ==
    [][/\ \A s \in Servers :
            /\ grpcServer[s].stopCalled =>
                    grpcServer'[s].inflight <= grpcServer[s].inflight
            /\ (ctxDone /\ grpcServer'[s].phase = "returned") =>
                    /\ grpcServer'[s].result = "nil"
                    /\ grpcServer'[s].inflight = 0
       /\ hcLoop.at = "returned" => hcLoop' = hcLoop
    ]_vars

(***************************************************************************)
(* Properties of the pure functions                                        *)
(***************************************************************************)

\* C25: Config.Validate returns an error exactly when the address is
\* empty, or there is no token, no Kubernetes auth and neither
\* OPENBAO_TOKEN nor VAULT_TOKEN, or Kubernetes auth has an empty role.
C25_ValidateExactly ==
    lastApplied.fn = "Validate" =>
        LET c == lastApplied.config
            env == lastApplied.env
        IN (lastApplied.err # "") <=>
              \/ c.Address = ""
              \/ /\ c.Token = "" /\ ~c.KubernetesAuth.set
                 /\ env.OPENBAO_TOKEN = "" /\ env.VAULT_TOKEN = ""
              \/ c.KubernetesAuth.set /\ c.KubernetesAuth.Role = ""

\* A config with a token and a Kubernetes auth without role was rejected.
C25_Witness ==
    /\ lastApplied.fn = "Validate"
    /\ lastApplied.config.Address # "" /\ lastApplied.config.Token # ""
    /\ lastApplied.config.KubernetesAuth = [set |-> TRUE, Role |-> ""]
    /\ lastApplied.err = "kubernetes auth role is required"


\* C28 (declared encodings): a fetch of an object whose encoding is none or
\* base64, on an answer that carries the requested content, ends without
\* error; with none the content is the extracted bytes, with base64 their
\* standard base64 encoding.
C28_DeclaredEncodings ==
    (/\ lastApplied.fn = "readFromOpenBao"
     /\ lastApplied.obj.Encoding \in {"none", "base64"}
     /\ ~lastApplied.resp.err /\ ~lastApplied.resp.nil
     /\ lastApplied.resp.isMap
     /\ Len(lastApplied.resp.requestID) >= 8
     /\ lastApplied.obj.SecretKey \in DOMAIN lastApplied.resp.fields) =>
        /\ lastApplied.out.kind = "ok"
        /\ lastApplied.out.Content =
              IF lastApplied.obj.Encoding = "none"
              THEN lastApplied.resp.fields[lastApplied.obj.SecretKey]
              ELSE Base64Encode(lastApplied.resp.fields[lastApplied.obj.SecretKey])

\* C29 (version token): every fetch ends with an error or with a secret
\* whose version is not empty: the reported metadata version of a read, "1"
\* for a read that reports none, the first characters of the request id for
\* a dynamic write, whatever the length of that request id.
C29_VersionToken ==
    lastApplied.fn = "readFromOpenBao" =>
        \/ lastApplied.out.kind = "err"
        \/ /\ lastApplied.out.kind = "ok"
           /\ lastApplied.out.Version # <<>>
           /\ lastApplied.out.Version =
                 IF Len(lastApplied.obj.SecretArgs) > 0
                 THEN SubSeq(lastApplied.resp.requestID, 1, 8)
                 ELSE IF lastApplied.resp.version # <<>>
                 THEN lastApplied.resp.version
                 ELSE <<"1">>

\* C30 (file permission): parseFilePermission returns the octal value of
\* every string made of octal digits only, with or without one leading zero,
\* and 0644 for the empty string and for every string that is not made of
\* octal digits only.
C30_ParseFilePermission ==
    lastApplied.fn = "parseFilePermission" =>
        lastApplied.mode =
            IF /\ lastApplied.perm # <<>>
               /\ \A i \in 1..Len(lastApplied.perm) :
                     lastApplied.perm[i] \in OctalDigits
            THEN ScanOctal(lastApplied.perm, 0)
            ELSE DefaultFileMode

\* C23 (a failed sync is not terminal): a reconcile whose sync failed asks
\* for a requeue after 30 seconds or returns an error, and after a failed
\* sync of a resource that stays, is not suspended and is not being
\* deleted, a later sync attempt, made once the cause is gone, ends with
\* Ready True.
C23_FailedSyncRetried ==
    /\ [](secLast.syncErr # "" =>
            \/ secLast.result = "requeue30s" /\ secLast.RequeueAfter = RetryDelay
            \/ secLast.result = "error")
    /\ (secLast.syncErr # "") ~>
          (baoSecret.Status.Conditions["Ready"].Status = "True")

(***************************************************************************)
(* Properties of the locks                                                 *)
(***************************************************************************)

\* C26 (lock discipline): a goroutine that makes a backend network call
\* holds none of the locks; once the object is shared, a lookup of keyID,
\* healthy, the cache entries or tokenExpiry is made with the field's lock
\* held; every mutation of them is made with the field's lock held for
\* writing.
C26_LockDiscipline ==
    /\ lastStep.op = "Call" => lastStep.locks = {}
    /\ (lastStep.op = "Read" /\ lastStep.shared) =>
          \E mode \in {"R", "W"} :
             <<GuardOf(lastStep.arg), mode>> \in lastStep.locks
    /\ lastStep.op = "Write" =>
          <<GuardOf(lastStep.arg), "W">> \in lastStep.locks
    /\ \A l \in Locks : mu[l].writer # None => mu[l].readers = {}

\* The health check writes keyID under the write lock while another
\* goroutine, past its Encrypt call, waits for the read lock.
C26_Witness ==
    /\ lastStep.routine = "performHealthCheck"
    /\ lastStep.op = "Write" /\ lastStep.arg = "keyID"
    /\ lastStep.locks = {<<"Server.mu", "W">>}
    /\ \E g \in Goroutines :
          goroutines[g] = [routine |-> "Encrypt", pc |-> 1]

(***************************************************************************)
(* Properties of the templates                                             *)
(***************************************************************************)

\* Literal substitution as C31 words it: one pass over the template text in
\* which a placeholder of an existing source field gives way to the field's
\* value and everything else, the inserted values included, stays as it is.
RECURSIVE LiteralSubstitution(_, _)
LiteralSubstitution(text, sourceData) ==
    IF text = <<>> THEN <<>>
    ELSE IF /\ Len(text) >= 3
            /\ text[2] \in DOMAIN sourceData
            /\ SubSeq(text, 1, 3) = Placeholder(text[2])
    THEN sourceData[text[2]]
            \o LiteralSubstitution(SubSeq(text, 4, Len(text)), sourceData)
    ELSE <<Head(text)>> \o LiteralSubstitution(Tail(text), sourceData)

\* C31 (literal substitution): every output field applyTemplate returns is
\* the template text with each placeholder of an existing source field
\* replaced by that field's value, the other placeholders left verbatim and
\* the inserted text not scanned again.
C31_LiteralSubstitution ==
    (lastApplied.fn = "applyTemplate" /\ lastApplied.out.returns) =>
        /\ \A key \in DOMAIN lastApplied.template.StringData :
              lastApplied.out.data[key] =
                  LiteralSubstitution(lastApplied.template.StringData[key],
                                      lastApplied.sourceData)
        /\ \A key \in DOMAIN lastApplied.template.Data :
              lastApplied.out.data[key] =
                  LiteralSubstitution(lastApplied.template.Data[key],
                                      lastApplied.sourceData)

\* C34 (termination): applyTemplate returns for every template and every
\* source data map, values that contain a placeholder included.
C34_ApplyTemplateTerminates ==
    lastApplied.fn = "applyTemplate" => lastApplied.out.returns

\* C38 (determinism): two runs of applyTemplate on the same template and
\* the same source data return the same output, and so the same version
\* hash, whatever the order in which the source fields are iterated.
C38_ApplyTemplateDeterministic ==
    (/\ lastApplied.fn = "applyTemplate"
     /\ lastApplied.out.returns /\ lastApplied.again.returns) =>
        /\ lastApplied.out.data = lastApplied.again.data
        /\ calculateVersion(lastApplied.out.data)
             = calculateVersion(lastApplied.again.data)

\* C32 (creation policy Merge): a successful reconcile of a BaoSecret with
\* creation policy Merge keeps, with its old value, every data key the
\* target had before the reconcile and the sync does not produce.
C32_MergeKeepsForeignKeys ==
    [][(/\ SecretReconcile
        /\ baoSecret.Spec.CreationPolicy = "Merge"
        /\ secLast'.wroteTarget) =>
          \A n \in Namespaces :
            \A key \in DOMAIN secTarget[n].Data :
               key \notin (DOMAIN secBackend
                             \cup DOMAIN baoSecret.Spec.Template.StringData
                             \cup DOMAIN baoSecret.Spec.Template.Data) =>
                  /\ key \in DOMAIN secTarget'[n].Data
                  /\ secTarget'[n].Data[key] = secTarget[n].Data[key]]_vars

(***************************************************************************)
(* Properties of the BaoPolicy status                                      *)
(***************************************************************************)

\* C33 (applied policy name): after every successful reconcile the
\* persisted status.appliedPolicyName is the resolved policy name and the
\* backend holds the rendered document under that name, whatever edits of
\* the spec came before.
C33_AppliedPolicyName ==
    [][(PolicyReconcile /\ polLast'.result = "requeue5m") =>
          /\ baoPolicy'.Status.AppliedPolicyName = GetPolicyName(baoPolicy')
          /\ polBackend'[GetPolicyName(baoPolicy')]
                \in ToHCL(baoPolicy'.Spec.Rules)]_vars

\* C35 (policy version): without out-of-band changes of the backend, the
\* persisted status.policyVersion is the hash of the document the controller
\* wrote last for the resource.
C35_PolicyVersionOfLastWrite ==
    (baoPolicy.exists /\ baoPolicy.Status.PolicyVersion # <<>>) =>
        baoPolicy.Status.PolicyVersion = Sha256Hex8(polSynced.written)

(***************************************************************************)
(* Properties of the cache across Mounts and object specs                  *)
(***************************************************************************)

\* C36 (sessions and the cache): a secret a Mount returns from the cache
\* for a (path, field-key, object-name) was stored by a fetch made through
\* a session of that Mount's own role.
C36_CacheWithinRole ==
    \A i \in 1..Len(lastMount.log) :
        LET e == lastMount.log[i] IN
        (e.kind = "hit" /\ e.pre.has /\ e.secret = e.pre.secret) =>
            e.pre.role = lastMount.params.RoleName

\* C37 (own options): the secret returned for an object spec, fetched or
\* from the cache, has the mode of that spec's file permission, content in
\* that spec's encoding and the version of that spec's kind of request.
C37_SecretOfOwnSpec ==
    \A i \in 1..Len(lastMount.log) :
        LET e == lastMount.log[i] IN
        e.kind \in {"hit", "fetched"} =>
            /\ e.secret.Mode = parseFilePermission(e.obj.FilePermission)
            /\ (e.obj.Encoding = "base64") <=>
                  (e.secret.Content = Base64Encode(
                      SubSeq(e.secret.Content, 2, Len(e.secret.Content) - 1)))
            /\ (Len(e.obj.SecretArgs) > 0) <=> (Len(e.secret.Version) = 8)


\* C39: the keyId of an Encrypt response names the key version the backend
\* used for that ciphertext: a successful response for a ciphertext the
\* backend made with version N carries keyId name:vN, whatever rotations
\* and health checks came before the call or while it was in flight.
C39_EncryptKeyIdOfUsedVersion ==
    (kmsResp.kind = "Encrypt" /\ ~kmsResp.err) =>
        kmsResp.KeyId = FormatKeyID(KeyName, kmsResp.usedVer)


\* C40: when two BaoSecrets name the same target, the target's data and its
\* kubebao.io/baosecret label stem from one and the same resource, and that
\* resource does not change from one reconcile to the next: a target that
\* one resource manages is not written by a reconcile of the other.
C40_TargetOfOneResource ==
    [][\A n \in Namespaces :
          (secTarget[n].exists /\ secTarget'[n].exists) =>
              /\ secTarget'[n].managedBy = secTarget[n].managedBy
              /\ secTarget'[n] # secTarget[n] =>
                    baoSecret.Name = secTarget[n].managedBy]_vars

====
